---- MODULE Spec2Model ----
(***************************************************************************)
(* State-machine model of the grocery_scraper crawl orchestration:         *)
(* product and category persistence (SQLite tables), the Scrapy item       *)
(* pipeline, the spiders' page handlers and the curl-based ATB scraper.    *)
(*                                                                         *)
(* Text is modelled as a sequence of one-character strings, so that        *)
(* stripping, lower-casing, substring search and number parsing are        *)
(* computed rather than assumed.  Python's None is the one-token sequence  *)
(* None for text and the empty sequence NoNum for numbers; a number n is   *)
(* the sequence <<n>>, counted in units of 1/PriceScale.                   *)
(***************************************************************************)
EXTENDS Integers, Sequences, FiniteSets, TLC

\* ------------------------------------------------------------------ bounds
MaxInputs  == 3      \* product cards / items / API entries consumed in one behaviour
MaxRuns    == 2      \* spider processes started one after the other
MaxPriceLen == 5     \* longest price text, in tokens
MaxAttempts == 4    \* longest server script: downloads of one task
MaxScript == 8      \* length of the scripts of a server that keeps failing
MaxMetroPages == 2  \* pages of a Metro category
MaxMetroRequests == 5   \* requests followed for one Metro category
MaxPages == 2       \* pages of a category the site has
MaxLinks == 2       \* category links on a main page
MaxLabels == 3      \* pagination items on a page
MaxCatPages == 3    \* pages of the category VarusSpider crawls
MaxPoolPages == 6   \* pages of the category the worker pool of ATBCurlScraper fetches
MaxBatchItems == 205    \* items DatabasePipeline accepts in one run

\* ------------------------------------------------------------------- state
\* The products database, the item pipeline and the spiders' counters
VARIABLES
    products,         \* rows of the products table
    next_id,          \* next AUTOINCREMENT id of the products table
    seen_products,    \* DeduplicationPipeline.seen_products
    duplicate_count,  \* DeduplicationPipeline.duplicate_count
    batch_items,      \* DatabasePipeline.batch_items
    items_processed,  \* DatabasePipeline.items_processed
    items_saved,      \* DatabasePipeline.items_saved
    items_failed,     \* DatabasePipeline.items_failed
    items_scraped,    \* BaseGrocerySpider.items_scraped
    phase,            \* "crawl" while the spider runs, "closed" after close_spider
    run,              \* number of the current spider process, from 1
    first_run,        \* history: what run 1 produced and the row count it left
    yielded,          \* history: the items the spiders have yielded in this run
    api_saved,        \* history: the products scraper.py has written in this run
    inputs_used       \* number of cards / items / API entries consumed so far

crawl_vars == <<products, next_id, seen_products, duplicate_count, batch_items,
                items_processed, items_saved, items_failed, items_scraped, phase,
                run, first_run, yielded, api_saved, inputs_used>>

\* One page fetch: the request, the server and the retry machinery
VARIABLES
    f_kind,         \* who issued the request: "varus_start", "category", "silpo_start", "curl"
    f_script,       \* what the server answers to the 1st, 2nd, ... download
    f_req,          \* the request: retry_times, playwright_retry_times, retry_attempt,
                    \* dont_filter, download_delay
    f_state,        \* "new", "scheduled", "dropped", "response", "exception", "done"
    f_status,       \* status of the response RetryMiddleware passed on, 0 if none
    df_seen,        \* the dupefilter has seen the fingerprint of the URL
    f_attempts,     \* downloads (curl runs) made so far
    f_processed,    \* times the content of a 200 response reached extraction
    f_error_extracted,  \* times the body of an error response reached extraction
    failed_urls,    \* size of SilpoSpider.failed_urls
    f_sleeps        \* history: the seconds of each time.sleep made for a retry, in order

fetch_vars == <<f_kind, f_script, f_req, f_state, f_status, df_seen, f_attempts,
                f_processed, f_error_extracted, failed_urls, f_sleeps>>

\* The categories table
VARIABLES
    categories,     \* rows of the categories table
    cat_next_id     \* next AUTOINCREMENT id of the categories table

cat_vars == <<categories, cat_next_id>>

\* ATBCurlScraper on one category of a site
VARIABLES
    a_session,      \* what make_curl_request returns for the main page
    a_site,         \* what make_curl_request returns for page 1, 2, ... of the category
    a_runs,         \* calls of scrape_category made so far
    a_return        \* what the last call of scrape_category returned, -1 before the first

atb_vars == <<a_session, a_site, a_runs, a_return>>

\* Category discovery of VarusSpider
VARIABLES
    d_links,        \* the elements category_selectors finds on the main page: [href, text]
    d_runs,         \* discovery runs made so far
    d_last,         \* the handler of the last run: "none", "base", "js", "load"
    d_saved,        \* saved_count of the last run
    d_skipped,      \* skipped_count of the last run
    d_raised,       \* the last run ended with an exception
    d_before,       \* history: the rows of the categories table when the last run began
    d_loads,        \* runs that loaded the categories from the database so far
    d_requests      \* the category page requests the last run yielded: url, category_name, page

disc_vars == <<d_links, d_runs, d_last, d_saved, d_skipped, d_raised, d_before, d_loads,
               d_requests>>

\* Pagination resolution on the first page of a category
VARIABLES
    p_page,         \* the pagination surface of the page: [items, last]
    p_resolver,     \* the resolver that has handled the page: "none", "base", "varus", "atb"
    p_requests,     \* the page numbers the resolver has scheduled requests for
    p_result        \* the page count resolved: get_max_pages' value, 1 + requests scheduled

pag_vars == <<p_page, p_resolver, p_requests, p_result>>

\* Price resolution for one product card of the ATB catalogue
VARIABLES
    c_card,         \* the card: [name, html], the name found and the text of the article
    c_done,         \* parse_product_html has handled the card
    c_product       \* what parse_product_html returned, NoProduct for None

price_vars == <<c_card, c_done, c_product>>

\* The pages of one category crawled by VarusSpider
VARIABLES
    g_site,         \* what the store serves for page 1, 2, ...: [status, cards]
    g_last,         \* the href of the "Go To Last" element of page 1, None if absent
    g_sched,        \* the page numbers whose request is scheduled
    g_ready,        \* the page numbers whose answer has been downloaded and waits for the spider
    g_done,         \* history: the page numbers answered, in the order of the answers
    g_open          \* the page numbers whose browser page is open

page_vars == <<g_site, g_last, g_sched, g_ready, g_done, g_open>>

\* The thread pool of ATBCurlScraper.scrape_category
VARIABLES
    w_site,         \* what make_curl_request returns for page 1, 2, ... of the category
    w_raises,       \* the page numbers whose worker ends with an exception
    w_pc,           \* scrape_category: "start", "pool" (inside the with block), "done"
    w_max_pages,    \* max_pages, 0 before get_max_pages
    w_queue,        \* the pages submitted to the executor that no worker has taken
    w_running,      \* the pages a worker is fetching
    w_started,      \* history: the pages workers have taken, in that order
    w_completed,    \* history: the pages whose future is done, in the order as_completed gives them
    w_products,     \* all_products
    w_total         \* the value scrape_category returned, -1 before it returns

pool_vars == <<w_site, w_raises, w_pc, w_max_pages, w_queue, w_running, w_started, w_completed,
               w_products, w_total>>

\* The selection of product cards on one listing page
VARIABLES
    k_doc,          \* the elements of the page, in document order
    k_spider,       \* the spider whose selection ran, "none" before
    k_cards         \* the list of product cards: positions in k_doc, in list order

card_vars == <<k_doc, k_spider, k_cards>>

\* MetroSpider's page-by-page pagination of one category
VARIABLES
    m_site,         \* the category on the server: the number of product cards of page
                    \* 1, 2, ... and how a page number past the last is answered
    m_page,         \* meta['page'] of the request that is out
    m_requests,     \* requests issued for the category so far
    m_pc            \* "request" while a request is out, else why pagination ended

metro_vars == <<m_site, m_page, m_requests, m_pc>>

outside_crawl == <<fetch_vars, cat_vars, atb_vars, disc_vars, pag_vars, price_vars, page_vars,
                   pool_vars, card_vars, metro_vars>>
outside_fetch == <<crawl_vars, cat_vars, atb_vars, disc_vars, pag_vars, price_vars, page_vars,
                   pool_vars, card_vars, metro_vars>>

\* ------------------------------------------------------- values and helpers
None  == <<"None">>                  \* Python None where text is expected
NoNum == <<>>                        \* Python None where a number is expected
Num(n) == <<n>>
IsNum(p) == Len(p) = 1
Val(p) == p[1]

Range(s) == {s[i] : i \in DOMAIN s}
SeqsUpTo(S, n) == UNION {[1..k -> S] : k \in 0..n}
Max(a, b) == IF a >= b THEN a ELSE b
Abs(n) == IF n < 0 THEN 0 - n ELSE n

\* Python truthiness of an optional text / optional number
TruthyText(t) == t # None /\ t # <<>>
TruthyNum(p) == IsNum(p) /\ Val(p) # 0

Digits == {"0", "1", "2", "3", "4", "5", "6", "7", "8", "9"}
DigitVal(c) == CASE c = "0" -> 0 [] c = "1" -> 1 [] c = "2" -> 2 [] c = "3" -> 3
                 [] c = "4" -> 4 [] c = "5" -> 5 [] c = "6" -> 6 [] c = "7" -> 7
                 [] c = "8" -> 8 [] c = "9" -> 9

RECURSIVE IntOf(_)
IntOf(ds) == IF ds = <<>> THEN 0
             ELSE 10 * IntOf(SubSeq(ds, 1, Len(ds) - 1)) + DigitVal(ds[Len(ds)])

RECURSIVE Pow10(_)
Pow10(k) == IF k <= 0 THEN 1 ELSE 10 * Pow10(k - 1)

RECURSIVE LStrip(_)
LStrip(s) == IF s # <<>> /\ s[1] = " " THEN LStrip(Tail(s)) ELSE s

RECURSIVE RStrip(_)
RStrip(s) == IF s # <<>> /\ s[Len(s)] = " " THEN RStrip(SubSeq(s, 1, Len(s) - 1)) ELSE s

RECURSIVE Squeeze(_)
Squeeze(s) == IF Len(s) < 2 THEN s
              ELSE IF s[1] = " " /\ s[2] = " " THEN Squeeze(Tail(s))
              ELSE <<s[1]>> \o Squeeze(Tail(s))

\* ' '.join(text.strip().split()), "" for None or ""
clean_text(text) == IF ~TruthyText(text) THEN <<>> ELSE Squeeze(RStrip(LStrip(text)))

\* float(s) for a string of digits and dots: defined iff there is at least
\* one digit and at most one dot.  The value is counted in units of
\* 1/PriceScale.  A price text of at most MaxPriceLen tokens that a pattern
\* matches has an integer digit and a separator besides its fraction, so it
\* has at most PriceDigits fraction digits and its value is exact.
PriceDigits == MaxPriceLen - 2
PriceScale == Pow10(PriceDigits)
DotsIn(s) == Cardinality({i \in DOMAIN s : s[i] = "."})
FirstDot(s) == IF DotsIn(s) = 0 THEN Len(s) + 1
               ELSE CHOOSE i \in DOMAIN s : s[i] = "." /\ \A j \in 1..(i - 1) : s[j] # "."
FloatOk(s) == DotsIn(s) <= 1 /\ Len(s) - DotsIn(s) >= 1 /\ Range(s) \subseteq Digits \cup {"."}
FracUnits(fr) == IF Len(fr) <= PriceDigits THEN IntOf(fr) * Pow10(PriceDigits - Len(fr))
                 ELSE IntOf(SubSeq(fr, 1, PriceDigits))
FloatOf(s) == LET d == FirstDot(s)
              IN  IntOf(SubSeq(s, 1, d - 1)) * PriceScale + FracUnits(SubSeq(s, d + 1, Len(s)))

\* re.sub(r'[^\d,.]', '', ...).replace(',', '.') then float(), None on failure
KeepPriceChars(t) == SelectSeq(t, LAMBDA c : c \in Digits \cup {".", ","})
CommaKept(t) == t
CommaToDot(t) == [i \in DOMAIN t |-> IF t[i] = "," THEN "." ELSE t[i]]
clean_price(price_text) ==
    IF ~TruthyText(price_text) THEN NoNum
    ELSE LET clean == CommaToDot(KeepPriceChars(price_text))
         IN  IF FloatOk(clean) THEN Num(FloatOf(clean)) ELSE NoNum

\* clean_price applied to a value that is already a float: str(x) keeps the
\* digits and the dot and loses the sign.
clean_price_of_number(p) == IF ~TruthyNum(p) THEN NoNum ELSE Num(Abs(Val(p)))

\* ------------------------------------------------------------- the database

\* products(name NOT NULL, price NOT NULL, store NOT NULL, url, UNIQUE(name, store, url)).
\* INSERT OR REPLACE: a NULL in a NOT NULL column raises; otherwise the rows
\* equal on every column of the unique key are deleted and the new row is
\* inserted.  SQLite never finds a NULL equal to anything, itself included,
\* so a row whose url is NULL conflicts with no row.
ProductConflicts(rows, name, store, url) ==
    {r \in rows : url # None /\ r.url # None /\ r.name = name /\ r.store = store /\ r.url = url}

InsertOrReplaceProduct(db, name, price, store, url) ==
    IF name = None \/ store = None \/ ~IsNum(price)
    THEN [rows |-> db.rows, next |-> db.next, ok |-> FALSE]
    ELSE [rows |-> (db.rows \ ProductConflicts(db.rows, name, store, url))
                      \cup {[id |-> db.next, name |-> name, price |-> price,
                             store |-> store, url |-> url]},
          next |-> db.next + 1, ok |-> TRUE]

\* ------------------------------------------------------------- the pipeline
\* An item is a record [name, price, store, url, scraped_at]; scraped_at is
\* "absent", "datetime" or "str" (an ISO string set by the spider).

\* f"{store}:{url}" hashed; the hash is taken to be injective
generate_product_id(store, url) == store \o <<":">> \o url

validate_product_data(item) ==
    TruthyText(item.name) /\ TruthyNum(item.price) /\ TruthyText(item.store)

\* ValidationPipeline.process_item: [ok, item]
ValidationPipeline_process_item(item) ==
    IF ~validate_product_data(item) THEN [ok |-> FALSE, item |-> item]
    ELSE LET price == clean_price_of_number(item.price)
         IN  IF ~IsNum(price) \/ Val(price) <= 0 THEN [ok |-> FALSE, item |-> item]
             ELSE [ok |-> TRUE,
                   item |-> [item EXCEPT !.name = clean_text(item.name),
                                         !.price = price,
                                         !.scraped_at = IF @ = "absent" THEN "datetime" ELSE @]]

\* SimpleDB.insert_products_batch: scraped_at.isoformat() raises for a str,
\* the exception is caught and the product is skipped.
\* One turn of the loop over the products of a batch.
insert_one_product(db, p) ==
    IF p.scraped_at = "str"
    THEN [rows |-> db.rows, next |-> db.next, ok |-> FALSE]
    ELSE InsertOrReplaceProduct(db, p.name, p.price, p.store, p.url)

\* The loop visits the products in order; the first half of the batch is
\* written before the second half is started on the resulting table.
RECURSIVE insert_products_batch(_, _)
insert_products_batch(db, prods) ==
    IF prods = <<>> THEN [rows |-> db.rows, next |-> db.next, saved |-> 0]
    ELSE IF Len(prods) = 1
    THEN LET r == insert_one_product(db, Head(prods))
         IN  [rows |-> r.rows, next |-> r.next, saved |-> IF r.ok THEN 1 ELSE 0]
    ELSE LET h == Len(prods) \div 2
         IN  CHOOSE out \in
                 {LET second == insert_products_batch([rows |-> first.rows, next |-> first.next],
                                                      SubSeq(prods, h + 1, Len(prods)))
                  IN  [rows |-> second.rows, next |-> second.next,
                       saved |-> first.saved + second.saved]
                  : first \in {insert_products_batch(db, SubSeq(prods, 1, h))}} : TRUE

batch_size == 100

\* The crawl state threaded through one handler
CrawlState == [rows |-> products, next |-> next_id, seen |-> seen_products,
               dup |-> duplicate_count, batch |-> batch_items,
               processed |-> items_processed, saved |-> items_saved,
               failed |-> items_failed, scraped |-> items_scraped]

\* DatabasePipeline._process_batch
process_batch_keeps(st) ==
    IF st.batch = <<>> THEN st
    ELSE LET r == insert_products_batch([rows |-> st.rows, next |-> st.next], st.batch)
         IN  [st EXCEPT !.rows = r.rows, !.next = r.next, !.saved = @ + r.saved]
DatabasePipeline_process_batch(st) ==
    IF st.batch = <<>> THEN st
    ELSE LET r == insert_products_batch([rows |-> st.rows, next |-> st.next], st.batch)
         IN  [st EXCEPT !.rows = r.rows, !.next = r.next,
                        !.saved = @ + r.saved, !.batch = <<>>]

\* DatabasePipeline.process_item
DatabasePipeline_process_item(st, item) ==
    LET st1 == [st EXCEPT !.processed = @ + 1, !.batch = Append(@, item)]
    IN  IF Len(st1.batch) >= batch_size THEN DatabasePipeline_process_batch(st1) ELSE st1

\* DeduplicationPipeline.process_item followed, for an item it lets through,
\* by DatabasePipeline.process_item
process_item_uncounted(st, item) ==
    LET product_id == generate_product_id(item.store, item.url)
    IN  IF product_id \in st.seen THEN st
        ELSE DatabasePipeline_process_item([st EXCEPT !.seen = @ \cup {product_id}], item)
DeduplicationPipeline_process_item(st, item) ==
    LET product_id == generate_product_id(item.store, item.url)
    IN  IF product_id \in st.seen THEN [st EXCEPT !.dup = @ + 1]
        ELSE DatabasePipeline_process_item([st EXCEPT !.seen = @ \cup {product_id}], item)

\* One item through ITEM_PIPELINES in priority order (a product item passes
\* CategoryPipeline unchanged); DropItem ends the chain.
RunPipelines(st, item) ==
    LET v == ValidationPipeline_process_item(item)
    IN  IF v.ok THEN DeduplicationPipeline_process_item(st, v.item) ELSE st

\* ------------------------------------------------------------- the spiders
Varus == <<"Varus">>
Silpo == <<"Silpo">>
ATB   == <<"ATB">>

\* What the selectors find on a product card: the text of the title node,
\* the text of the first price node, the href of the link.
Titles     == {None, <<" ">>, <<"a">>, <<"b">>}
PriceTexts == {None, <<"0">>, <<"5">>}
Hrefs      == {None, <<"u1">>}
Cards == [title : Titles, price_text : PriceTexts, href : Hrefs]

NoProduct == [name |-> None, price |-> NoNum, store |-> None, url |-> None, scraped_at |-> "absent"]

\* BaseGrocerySpider.extract_product (NoProduct for a None result)
Base_extract_product(card, store) ==
    LET name == clean_text(card.title)
        price == clean_price(card.price_text)
    IN  IF ~TruthyNum(price) THEN NoProduct
        ELSE [name |-> name, price |-> price, store |-> store, url |-> card.href,
              scraped_at |-> "absent"]

\* VarusSpider.extract_product
Varus_extract_product(card, store) ==
    IF ~TruthyText(card.title) THEN NoProduct
    ELSE LET price == IF TruthyText(card.price_text) THEN clean_price(card.price_text) ELSE NoNum
         IN  IF ~TruthyNum(price) THEN NoProduct
             ELSE [name |-> clean_text(card.title), price |-> price, store |-> store,
                   url |-> card.href, scraped_at |-> "absent"]

\* BaseGrocerySpider.save_product: INSERT OR REPLACE, errors are logged
save_product(st, item) ==
    LET r == InsertOrReplaceProduct([rows |-> st.rows, next |-> st.next],
                                    item.name, item.price, item.store, item.url)
    IN  IF r.ok THEN [st EXCEPT !.rows = r.rows, !.next = r.next, !.scraped = @ + 1] ELSE st

\* The card loop of parse_category: extract, save_product, yield to the pipelines
RECURSIVE ParseCards(_, _, _, _)
ParseCards(st, cards, store, varus) ==
    IF cards = <<>> THEN st
    ELSE LET product == IF varus THEN Varus_extract_product(Head(cards), store)
                        ELSE Base_extract_product(Head(cards), store)
             st1 == IF product = NoProduct THEN st
                    ELSE RunPipelines(save_product(st, product), product)
         IN  ParseCards(st1, Tail(cards), store, varus)

RECURSIVE ProductsOf(_, _, _)
ProductsOf(cards, store, varus) ==
    IF cards = <<>> THEN <<>>
    ELSE LET product == IF varus THEN Varus_extract_product(Head(cards), store)
                        ELSE Base_extract_product(Head(cards), store)
         IN  (IF product = NoProduct THEN <<>> ELSE <<product>>)
                 \o ProductsOf(Tail(cards), store, varus)

SetCrawlState(st) ==
    /\ products' = st.rows
    /\ next_id' = st.next
    /\ seen_products' = st.seen
    /\ duplicate_count' = st.dup
    /\ batch_items' = st.batch
    /\ items_processed' = st.processed
    /\ items_saved' = st.saved
    /\ items_failed' = st.failed
    /\ items_scraped' = st.scraped

\* The pages that fit in what is left of the input budget
PagesOfCards == UNION {[1..n -> Cards] : n \in 1..(MaxInputs - inputs_used)}

\* VarusSpider.parse_category on one response
Varus_parse_category ==
    /\ phase = "crawl"
    /\ \E cards \in PagesOfCards :
          /\ inputs_used' = inputs_used + Len(cards)
          /\ SetCrawlState(ParseCards(CrawlState, cards, Varus, TRUE))
          /\ yielded' = yielded \o ProductsOf(cards, Varus, TRUE)
    /\ UNCHANGED <<phase, run, first_run, api_saved>>
    /\ UNCHANGED outside_crawl

\* BaseGrocerySpider.parse_category on one response, for a store spider that
\* inherits it
Base_parse_category ==
    /\ phase = "crawl"
    /\ \E cards \in PagesOfCards :
          /\ inputs_used' = inputs_used + Len(cards)
          /\ SetCrawlState(ParseCards(CrawlState, cards, ATB, FALSE))
          /\ yielded' = yielded \o ProductsOf(cards, ATB, FALSE)
    /\ UNCHANGED <<phase, run, first_run, api_saved>>
    /\ UNCHANGED outside_crawl

\* An item yielded by SilpoSpider.parse_search_results enters the pipelines:
\* name stripped, price set only when one was extracted, url the page URL,
\* scraped_at an ISO string.
SilpoItems == [name : {<<"a">>, <<"b">>}, price : {NoNum, Num(5 * PriceScale)},
               store : {Silpo}, url : {<<"p1">>, <<"p2">>}, scraped_at : {"str"}]

Silpo_item ==
    /\ phase = "crawl"
    /\ inputs_used < MaxInputs
    /\ \E item \in SilpoItems :
          /\ SetCrawlState(RunPipelines(CrawlState, item))
          /\ yielded' = Append(yielded, item)
    /\ inputs_used' = inputs_used + 1
    /\ UNCHANGED <<phase, run, first_run, api_saved>>
    /\ UNCHANGED outside_crawl

\* The k-th item that reaches DatabasePipeline in a long run: validated,
\* not a duplicate, without url
BatchItem(k) == [name |-> IF k % 2 = 1 THEN <<"a">> ELSE <<"b">>, price |-> Num(5 * PriceScale),
                 store |-> Varus, url |-> None, scraped_at |-> "datetime"]

\* DatabasePipeline.process_item on the next item of the run
accepted_item ==
    /\ phase = "crawl"
    /\ items_processed < MaxBatchItems
    /\ SetCrawlState(DatabasePipeline_process_item(CrawlState, BatchItem(items_processed + 1)))
    /\ UNCHANGED <<phase, run, first_run, yielded, api_saved, inputs_used>>
    /\ UNCHANGED outside_crawl

\* DatabasePipeline.close_spider
close_spider ==
    /\ phase = "crawl"
    /\ SetCrawlState(DatabasePipeline_process_batch(CrawlState))
    /\ phase' = "closed"
    /\ UNCHANGED <<yielded, inputs_used, run, first_run, api_saved>>
    /\ UNCHANGED outside_crawl

\* The next spider process starts: the pipelines are constructed afresh
\* (DeduplicationPipeline.__init__, DatabasePipeline.__init__), the database
\* file is the one the previous run left.
start_spider ==
    /\ phase = "closed"
    /\ run < MaxRuns
    /\ run' = run + 1
    /\ first_run' = IF run = 1
                    THEN [yielded |-> yielded, api_saved |-> api_saved,
                          rows |-> Cardinality(products)]
                    ELSE first_run
    /\ seen_products' = {}
    /\ duplicate_count' = 0
    /\ batch_items' = <<>>
    /\ items_processed' = 0
    /\ items_saved' = 0
    /\ items_failed' = 0
    /\ items_scraped' = 0
    /\ phase' = "crawl"
    /\ yielded' = <<>>
    /\ api_saved' = <<>>
    /\ UNCHANGED <<products, next_id, inputs_used>>
    /\ UNCHANGED outside_crawl

\* --------------------------------------------- scraper.py: the API scraper
\* One entry of the JSON 'products' list: name and price may be absent.
ApiNames  == {None, <<" ">>, <<"a">>}
ApiPrices == {NoNum, Num(0), Num(5 * PriceScale), Num(0 - 5 * PriceScale)}
ApiEntries == [name : ApiNames, price : ApiPrices, id : {<<"7">>}]

\* The dict ATBScraper.scrape_category builds from one entry
ATBScraper_product(entry) ==
    [name |-> clean_text(entry.name),
     price |-> IF IsNum(entry.price) THEN entry.price ELSE Num(0),
     store |-> ATB,
     url |-> <<"/product/">> \o entry.id,
     scraped_at |-> "str"]

\* Database.save_products
RECURSIVE Database_save_products(_, _)
Database_save_products(db, prods) ==
    IF prods = <<>> THEN db
    ELSE LET p == Head(prods)
             r == InsertOrReplaceProduct(db, p.name, p.price, p.store, p.url)
         IN  Database_save_products([rows |-> r.rows, next |-> r.next], Tail(prods))

\* ATBScraper.scrape for one category: scrape_category collects the entries
\* of the pages the API answers, Database.save_products writes them.
ATBScraper_scrape ==
    /\ \E entries \in UNION {[1..n -> ApiEntries] : n \in 1..(MaxInputs - inputs_used)} :
          /\ inputs_used' = inputs_used + Len(entries)
          /\ LET prods == [i \in DOMAIN entries |-> ATBScraper_product(entries[i])]
                 db == Database_save_products([rows |-> products, next |-> next_id], prods)
             IN  products' = db.rows /\ next_id' = db.next /\ api_saved' = api_saved \o prods
    /\ UNCHANGED <<seen_products, duplicate_count, batch_items, items_processed,
                   items_saved, items_failed, items_scraped, phase, yielded, run, first_run>>
    /\ UNCHANGED outside_crawl

\* ------------------------------------------- atb_curl_scraper.py: page text
\* A page is a sequence of tokens; an indicator is a sequence of tokens and
\* occurs in the page when it is a contiguous part of the lower-cased page.
Lower(tok) == CASE tok = "Just a moment" -> "just a moment"
                [] tok = "Cloudflare" -> "cloudflare"
                [] tok = "No-Results" -> "no-results"
                [] tok = "Next" -> "next"
                [] tok = "Promo" -> "promo"
                [] tok = "Page" -> "page"
                [] OTHER -> tok
LowerSeq(s) == [i \in DOMAIN s |-> Lower(s[i])]
Contains(s, sub) == \E i \in 1..(Len(s) - Len(sub) + 1) : SubSeq(s, i, i + Len(sub) - 1) = sub

\* (the three Ukrainian indicators are written in Latin transliteration)
empty_indicators == {<<"no products found">>, <<"nemaie tovariv">>, <<"pusto">>,
                     <<"empty-results">>, <<"no-results">>, <<"404">>,
                     <<"page not found">>, <<"storinka ne znaidena">>}
cloudflare_indicators == {<<"just a moment">>, <<"enable javascript and cookies">>,
                          <<"_cf_chl_opt">>, <<"cloudflare">>, <<"challenge-platform">>}
blocking_indicators == {<<"just a moment">>, <<"enable javascript and cookies">>,
                        <<"_cf_chl_opt">>, <<"window.", "_cf_chl_opt">>,
                        <<"challenge-platform", "/h/g">>}

\* ATBCurlScraper.is_empty_page
is_empty_page(html) ==
    LET html_lower == LowerSeq(html)
    IN  IF \E ind \in cloudflare_indicators : Contains(html_lower, ind) THEN FALSE
        ELSE \E ind \in empty_indicators : Contains(html_lower, ind)

\* ATBCurlScraper.is_cloudflare_protected
is_cloudflare_protected(html) ==
    LET html_lower == LowerSeq(html)
    IN  \E ind \in blocking_indicators : Contains(html_lower, ind)

\* ------------------------------------ atb_curl_scraper.py: get_max_pages
\* The page text is a token sequence: a digit is one token, "page=", "page",
\* "of", "next", ">", "<", " ", the newline "\n", the double quote QUOTE and
\* HREF (the text href=") are one token each; any other token is filler.
QUOTE == "\""
HREF == "href=\""

\* end of the longest run of digits that starts at i, i - 1 if there is none
RECURSIVE DigitRunEnd(_, _)
DigitRunEnd(s, i) == IF i <= Len(s) /\ s[i] \in Digits THEN DigitRunEnd(s, i + 1) ELSE i - 1

RECURSIVE SkipSpace(_, _)
SkipSpace(s, i) == IF i <= Len(s) /\ s[i] \in {" ", "\n"} THEN SkipSpace(s, i + 1) ELSE i

\* first index >= i whose token is in stop, 0 if a token of bar comes first
\* or the text ends
RECURSIVE FirstOf(_, _, _, _)
FirstOf(s, i, stop, bar) == IF i > Len(s) THEN 0
                            ELSE IF s[i] \in stop THEN i
                            ELSE IF s[i] \in bar THEN 0
                            ELSE FirstOf(s, i + 1, stop, bar)

\* A match of a pattern that starts at token j: [end, nums], end = 0 if the
\* pattern does not match there.
NoMatch == [end |-> 0, nums |-> <<>>]

\* page=(\d+).*?(?:nastupna|next|>) : the dot does not cross a newline
NextLinkAt(s, j) ==
    IF s[j] # "page=" THEN NoMatch
    ELSE LET e == DigitRunEnd(s, j + 1)
             k == FirstOf(s, e + 1, {"nastupna", "next", ">"}, {"\n"})
         IN  IF e < j + 1 \/ k = 0 THEN NoMatch
             ELSE [end |-> k, nums |-> <<IntOf(SubSeq(s, j + 1, e))>>]

\* href="[^"]*page=(\d+)"[^>]*>(\d+)<
PageLinkAt(s, j) ==
    IF s[j] # HREF THEN NoMatch
    ELSE LET ps == {p \in (j + 1)..Len(s) :
                       /\ s[p] = "page="
                       /\ \A q \in (j + 1)..(p - 1) : s[q] \notin {QUOTE, HREF}
                       /\ DigitRunEnd(s, p + 1) >= p + 1
                       /\ DigitRunEnd(s, p + 1) < Len(s)
                       /\ s[DigitRunEnd(s, p + 1) + 1] = QUOTE}
         IN  IF ps = {} THEN NoMatch
             ELSE LET p == CHOOSE x \in ps : TRUE
                      e == DigitRunEnd(s, p + 1)
                      k == FirstOf(s, e + 2, {">"}, {})
                      e2 == DigitRunEnd(s, k + 1)
                  IN  IF k = 0 \/ e2 < k + 1 \/ e2 >= Len(s) THEN NoMatch
                      ELSE IF s[e2 + 1] # "<" THEN NoMatch
                      ELSE [end |-> e2 + 1,
                            nums |-> <<IntOf(SubSeq(s, p + 1, e)), IntOf(SubSeq(s, k + 1, e2))>>]

\* page\s*(\d+)\s*of\s*(\d+)
PageOfAt(s, j) ==
    IF s[j] # "page" THEN NoMatch
    ELSE LET a == SkipSpace(s, j + 1)
             e == DigitRunEnd(s, a)
             o == SkipSpace(s, e + 1)
             b == SkipSpace(s, o + 1)
             e2 == DigitRunEnd(s, b)
         IN  IF e < a \/ o > Len(s) THEN NoMatch
             ELSE IF s[o] # "of" \/ e2 < b THEN NoMatch
             ELSE [end |-> e2, nums |-> <<IntOf(SubSeq(s, a, e)), IntOf(SubSeq(s, b, e2))>>]

\* re.findall(pattern, html, re.IGNORECASE): the matches from left to right,
\* each search resuming after the previous match; the largest number of all
RECURSIVE FindAllMax(_, _, _, _)
FindAllMax(MatchAt(_, _), s, j, best) ==
    IF j > Len(s) THEN best
    ELSE LET m == MatchAt(s, j)
         IN  IF m.end = 0 THEN FindAllMax(MatchAt, s, j + 1, best)
             ELSE FindAllMax(MatchAt, s, m.end + 1,
                             Max(best, Max(m.nums[1], m.nums[Len(m.nums)])))

\* ATBCurlScraper.get_max_pages on the text make_curl_request returned
get_max_pages(html) ==
    IF ~TruthyText(html) THEN 1
    ELSE LET t == LowerSeq(html)
         IN  FindAllMax(PageOfAt, t, 1, FindAllMax(PageLinkAt, t, 1, FindAllMax(NextLinkAt, t, 1, 1)))

\* ------------------------------------------------------ the categories table
\* categories(store NOT NULL, category NOT NULL, subcategory, category_url,
\* UNIQUE(store, category, subcategory)); a NULL subcategory is equal to no
\* subcategory, so such a row conflicts with no row.
CategoryConflicts(rows, store, category, subcategory) ==
    {r \in rows : subcategory # None /\ r.subcategory # None /\ r.store = store
                  /\ r.category = category /\ r.subcategory = subcategory}

\* INSERT OR REPLACE (replace = TRUE) / INSERT OR IGNORE (replace = FALSE)
InsertCategory(db, store, category, subcategory, url, replace) ==
    LET clash == CategoryConflicts(db.rows, store, category, subcategory)
    IN  IF store = None \/ category = None THEN db
        ELSE IF ~replace /\ clash # {} THEN db
        ELSE [rows |-> (db.rows \ clash)
                          \cup {[id |-> db.next, store |-> store, category |-> category,
                                 subcategory |-> subcategory, category_url |-> url]},
              next |-> db.next + 1]

\* A category item as MetroSpider.parse_categories yields it; the keys a
\* product item has and this dict lacks read as None
Metro == <<"Metro">>
CategoryItems ==
    [type : {"category"}, store : {Metro}, category : {<<"Milk">>, <<"Bread">>},
     subcategory : {None}, category_url : {<<"c1">>, <<"c2">>},
     name : {None}, price : {NoNum}, url : {None}, scraped_at : {"absent"}]

\* CategoryPipeline.process_item: [dropped, db]
CategoryPipeline_process_item(cdb, item) ==
    IF "type" \in DOMAIN item /\ item.type = "category"
    THEN [dropped |-> TRUE,
          db |-> IF TruthyText(item.store) /\ TruthyText(item.category)
                 THEN InsertCategory(cdb, item.store, item.category, item.subcategory,
                                     item.category_url, TRUE)
                 ELSE cdb]
    ELSE [dropped |-> FALSE, db |-> cdb]

\* ITEM_PIPELINES: ValidationPipeline 100, CategoryPipeline 150,
\* DeduplicationPipeline 200, DatabasePipeline 300; DropItem ends the chain.
ITEM_PIPELINES(st, cdb, item) ==
    LET v == ValidationPipeline_process_item(item)
    IN  IF ~v.ok THEN [st |-> st, cdb |-> cdb]
        ELSE LET c == CategoryPipeline_process_item(cdb, v.item)
             IN  IF c.dropped THEN [st |-> st, cdb |-> c.db]
                 ELSE [st |-> DeduplicationPipeline_process_item(st, v.item), cdb |-> c.db]

\* MetroSpider.parse_categories yields a category item, which goes through
\* the item pipelines
Metro_category_item ==
    /\ phase = "crawl"
    /\ inputs_used < MaxInputs
    /\ \E item \in CategoryItems :
          LET r == ITEM_PIPELINES(CrawlState, [rows |-> categories, next |-> cat_next_id], item)
          IN  /\ SetCrawlState(r.st)
              /\ categories' = r.cdb.rows
              /\ cat_next_id' = r.cdb.next
              /\ yielded' = Append(yielded, item)
    /\ inputs_used' = inputs_used + 1
    /\ UNCHANGED <<phase, run, first_run, api_saved>>
    /\ UNCHANGED <<fetch_vars, atb_vars, disc_vars, pag_vars, price_vars, page_vars, pool_vars,
                   card_vars, metro_vars>>

\* ---------------------------------- atb_curl_scraper.py: scrape_category
\* An article token stands for one complete <article class="catalog-item">
\* element; ArticleProduct is what parse_product_html makes of it.
ArticleProduct(tok) ==
    CASE tok = "article-a" -> [name |-> <<"a">>, price |-> Num(5 * PriceScale), store |-> ATB,
                               url |-> <<"u1">>, scraped_at |-> "str"]
      [] tok = "article-b" -> [name |-> <<"b">>, price |-> Num(5 * PriceScale), store |-> ATB,
                               url |-> None, scraped_at |-> "str"]
      [] OTHER -> NoProduct

\* ATBCurlScraper.extract_products_from_html
extract_products_from_html(html) ==
    LET arts == SelectSeq(html, LAMBDA tok : tok \in {"article-a", "article-b", "article-x"})
        prods == [i \in DOMAIN arts |-> ArticleProduct(arts[i])]
    IN  SelectSeq(prods, LAMBDA pr : pr # NoProduct)

\* ATBCurlScraper.establish_session
establish_session(html) == TruthyText(html) /\ ~is_cloudflare_protected(html)

\* ATBCurlScraper.save_category
save_category(db, name, url) == InsertCategory(db, ATB, name, None, url, TRUE)

\* ATBCurlScraper.save_products: [rows, next, saved]
RECURSIVE save_products(_, _)
save_products(db, prods) ==
    IF prods = <<>> THEN [rows |-> db.rows, next |-> db.next, saved |-> 0]
    ELSE LET r == InsertOrReplaceProduct(db, prods[1].name, prods[1].price,
                                         prods[1].store, prods[1].url)
             rest == save_products([rows |-> r.rows, next |-> r.next], Tail(prods))
         IN  [rest EXCEPT !.saved = @ + (IF r.ok THEN 1 ELSE 0)]

\* the text the site serves for page n of the category; past its last page
\* it answers with its not-found page
NotFoundPage == <<"404", "page not found">>
SitePage(site, n) == IF n <= Len(site) THEN site[n] ELSE NotFoundPage

\* scrape_single_page of scrape_category
ScrapeSinglePage(html) ==
    IF ~TruthyText(html) \/ is_cloudflare_protected(html) \/ is_empty_page(html) THEN <<>>
    ELSE extract_products_from_html(html)

RECURSIVE AllProducts(_, _, _)
AllProducts(site, n, max_pages) ==
    IF n > max_pages THEN <<>>
    ELSE ScrapeSinglePage(SitePage(site, n)) \o AllProducts(site, n + 1, max_pages)

\* ATBCurlScraper.get_categories: the first entries of the list
get_categories == <<[name |-> <<"Bakaliia">>, url |-> <<"/catalog/285-bakaliya">>],
                    [name |-> <<"Miaso">>, url |-> <<"/catalog/maso">>]>>
CategoryName(category) == category.name
CategoryUrl(category) == <<"https://www.atbmarket.com">> \o category.url

\* ATBCurlScraper.scrape_category: [ret, pdb, cdb] - the value returned, the
\* products table and the categories table it leaves
ATBCurl_scrape_category(pdb, cdb, session, site, category) ==
    IF ~establish_session(session) THEN [ret |-> 0, pdb |-> pdb, cdb |-> cdb]
    ELSE LET cdb2 == save_category(cdb, CategoryName(category), CategoryUrl(category))
             max_pages == get_max_pages(SitePage(site, 1))
             all_products == AllProducts(site, 1, max_pages)
             saved == save_products(pdb, all_products)
         IN  [ret |-> saved.saved, pdb |-> [rows |-> saved.rows, next |-> saved.next],
              cdb |-> cdb2]

scrape_category ==
    /\ a_runs < MaxRuns
    /\ \E category \in Range(get_categories) :
          LET r == ATBCurl_scrape_category([rows |-> products, next |-> next_id],
                                           [rows |-> categories, next |-> cat_next_id],
                                           a_session, a_site, category)
          IN  /\ a_return' = r.ret
              /\ products' = r.pdb.rows
              /\ next_id' = r.pdb.next
              /\ categories' = r.cdb.rows
              /\ cat_next_id' = r.cdb.next
    /\ a_runs' = a_runs + 1
    /\ UNCHANGED <<a_session, a_site>>
    /\ UNCHANGED <<seen_products, duplicate_count, batch_items, items_processed, items_saved,
                   items_failed, items_scraped, phase, run, first_run, yielded, api_saved,
                   inputs_used>>
    /\ UNCHANGED <<fetch_vars, disc_vars, pag_vars, price_vars, page_vars, pool_vars, card_vars, metro_vars>>

\* The texts a site serves: nothing, product pages with and without
\* page links, challenge pages, an empty result, pages that mention the CDN
AtbPages == {None,
             <<"article-a">>,
             <<"article-a", HREF, "/c?", "page=", "2", QUOTE, ">", "2", "<">>,
             <<"article-b", "article-x">>,
             <<"Just a moment">>,
             <<"window.", "_cf_chl_opt">>,
             <<"challenge-platform", "/h/g">>,
             <<"no products found">>,
             <<"article-a", "Cloudflare">>,
             <<"Cloudflare", "No-Results">>}

CatInit == categories = {} /\ cat_next_id = 1

AtbInit ==
    /\ a_session \in {None, <<"home">>, <<"Just a moment">>}
    /\ a_site \in UNION {[1..n -> AtbPages] : n \in 1..MaxPages}
    /\ a_runs = 0
    /\ a_return = 0 - 1

\* a site with an open main page and a one-page category
AtbHome ==
    /\ a_session = <<"home">>
    /\ a_site = << <<"article-a">> >>
    /\ a_runs = 0
    /\ a_return = 0 - 1

AtbIdle ==
    /\ a_session = None
    /\ a_site = <<>>
    /\ a_runs = 0
    /\ a_return = 0 - 1

\* ------------------------------------------------------ category discovery
\* A URL is a token sequence: the origin, "/" and path segments.
\* EXCLUDED_URL_PATTERNS of config, the entry of the store: configuration
\* data; the one pattern is the example the specification gives.
EXCLUDED_URL_PATTERNS == {<<"promo">>}

\* BaseGrocerySpider.is_category_excluded
never_excluded(url) == FALSE
is_category_excluded(url) ==
    IF ~TruthyText(url) THEN FALSE
    ELSE LET url_lower == LowerSeq(url)
         IN  \E pattern \in EXCLUDED_URL_PATTERNS : Contains(url_lower, LowerSeq(pattern))

\* urljoin(response.url, href) for the main page of the store
ResponseUrl == <<"https://varus.ua">>
urljoin(href) == IF ~TruthyText(href) THEN ResponseUrl
                 ELSE IF href[1] = "/" THEN ResponseUrl \o href
                 ELSE href

\* BaseGrocerySpider.clear_categories_for_store
clear_categories_merge(db, store) == db
clear_categories_for_store(db, store) ==
    [rows |-> {r \in db.rows : r.store # store}, next |-> db.next]

\* BaseGrocerySpider.save_category_to_db: [db, saved]
save_category_to_db(db, store, category_name, category_url) ==
    LET db2 == InsertCategory(db, store, category_name, None, category_url, FALSE)
    IN  [db |-> db2, saved |-> db2.rows # db.rows]

\* The loop of BaseGrocerySpider.discover_categories over the elements:
\* [db, saved, skipped, raised]; an element without a text node makes
\* .get().strip() raise, which ends the handler.
RECURSIVE Base_discover_loop(_, _, _)
Base_discover_loop(acc, links, store) ==
    IF links = <<>> THEN acc
    ELSE LET category == links[1]
             full_url == urljoin(category.href)
         IN  IF category.text = None THEN [acc EXCEPT !.raised = TRUE]
             ELSE IF is_category_excluded(full_url)
             THEN Base_discover_loop([acc EXCEPT !.skipped = @ + 1], Tail(links), store)
             ELSE LET category_name == RStrip(LStrip(category.text))
                      r == save_category_to_db(acc.db, store, category_name, full_url)
                  IN  Base_discover_loop([acc EXCEPT !.db = r.db,
                                                     !.saved = @ + (IF r.saved THEN 1 ELSE 0)],
                                         Tail(links), store)

\* The loop of VarusSpider.discover_categories_with_js
RECURSIVE Varus_discover_loop(_, _, _)
Varus_discover_loop(acc, links, store) ==
    IF links = <<>> THEN acc
    ELSE LET element == links[1]
             full_url == urljoin(element.href)
         IN  IF ~(TruthyText(element.href) /\ element.href[1] = "/" /\ TruthyText(element.text))
             THEN Varus_discover_loop(acc, Tail(links), store)
             ELSE IF is_category_excluded(full_url)
             THEN Varus_discover_loop([acc EXCEPT !.skipped = @ + 1], Tail(links), store)
             ELSE LET r == save_category_to_db(acc.db, store, clean_text(element.text), full_url)
                  IN  Varus_discover_loop([acc EXCEPT !.db = r.db,
                                                      !.saved = @ + (IF r.saved THEN 1 ELSE 0)],
                                          Tail(links), store)

DiscoverStart(db, store) ==
    [db |-> clear_categories_for_store(db, store), saved |-> 0, skipped |-> 0, raised |-> FALSE]

SetDiscovered(r, handler) ==
    /\ categories' = r.db.rows
    /\ cat_next_id' = r.db.next
    /\ d_saved' = r.saved
    /\ d_skipped' = r.skipped
    /\ d_raised' = r.raised
    /\ d_last' = handler
    /\ d_runs' = d_runs + 1
    /\ d_before' = categories
    /\ d_requests' = {}
    /\ UNCHANGED <<d_links, d_loads>>
    /\ UNCHANGED <<crawl_vars, fetch_vars, atb_vars, pag_vars, price_vars, page_vars, pool_vars, card_vars, metro_vars>>

\* BaseGrocerySpider.check_categories_in_db
check_categories_in_db(store) == \E r \in categories : r.store = store

\* VarusSpider.parse without discover_categories and with no category of the
\* store in the database: BaseGrocerySpider.discover_categories on the response
discover_categories ==
    /\ d_runs < MaxRuns
    /\ ~check_categories_in_db(Varus)
    /\ SetDiscovered(Base_discover_loop(
                         DiscoverStart([rows |-> categories, next |-> cat_next_id], Varus),
                         d_links, Varus), "base")

\* VarusSpider.parse with discover_categories set: the main page is requested
\* again and handled by discover_categories_with_js
discover_categories_with_js ==
    /\ d_runs < MaxRuns
    /\ SetDiscovered(Varus_discover_loop(
                         DiscoverStart([rows |-> categories, next |-> cat_next_id], Varus),
                         d_links, Varus), "js")

\* Between two runs the store takes a category off its main page: the
\* response of the next run has one element less.
main_page_changes ==
    /\ d_runs >= 1
    /\ d_runs < MaxRuns
    /\ \E i \in DOMAIN d_links :
          d_links' = SubSeq(d_links, 1, i - 1) \o SubSeq(d_links, i + 1, Len(d_links))
    /\ UNCHANGED <<d_runs, d_last, d_saved, d_skipped, d_raised, d_before, d_loads, d_requests>>
    /\ UNCHANGED <<crawl_vars, fetch_vars, cat_vars, atb_vars, pag_vars, price_vars, page_vars, pool_vars, card_vars, metro_vars>>

\* The rows the SELECT of parse_all_categories_from_db returns: those of the
\* store whose category_url is neither NULL nor ''
StoredWithUrl(rows, store) ==
    {r \in rows : r.store = store /\ r.category_url # None /\ r.category_url # <<>>}

\* parse_all_categories_from_db: the URLs of the requests it yields
Varus_parse_all_categories_from_db(rows, store) ==
    {[url |-> r.category_url, category_name |-> r.category, page |-> 1] :
        r \in {x \in StoredWithUrl(rows, store) : ~is_category_excluded(x.category_url)}}

\* VarusSpider.parse without discover_categories and with categories of the
\* store in the database: parse_all_categories_from_db
parse_all_categories_from_db ==
    /\ d_loads < MaxRuns
    /\ check_categories_in_db(Varus)
    /\ d_requests' = Varus_parse_all_categories_from_db(categories, Varus)
    /\ d_loads' = d_loads + 1
    /\ d_last' = "load"
    /\ d_before' = categories
    /\ UNCHANGED <<d_links, d_runs, d_saved, d_skipped, d_raised>>
    /\ UNCHANGED <<crawl_vars, fetch_vars, cat_vars, atb_vars, pag_vars, price_vars, page_vars, pool_vars, card_vars, metro_vars>>

LinkHrefs == {None, <<"/", "milk">>, <<"/", "Promo">>, <<"/", "tea", "-", "promo">>,
              <<"https://varus.ua", "/", "bread">>}
LinkTexts == {None, <<"Milk">>, <<" ", "Tea">>}
Links == [href : LinkHrefs, text : LinkTexts]

DiscInit ==
    /\ d_links \in UNION {[1..n -> Links] : n \in 0..MaxLinks}
    /\ d_runs = 0
    /\ d_last = "none"
    /\ d_saved = 0
    /\ d_skipped = 0
    /\ d_raised = FALSE
    /\ d_before = {}
    /\ d_loads = 0
    /\ d_requests = {}

\* A categories table as earlier runs and the other writers of the table
\* (CategoryPipeline, ATBCurlScraper.save_category) can have left it, also
\* under an exclusion list that has changed since: rows with a plain URL,
\* with an excluded URL, without URL, with the empty URL, of another store,
\* and two rows with one URL.
StoredCategories ==
    {[id |-> 1, store |-> Varus, category |-> <<"Milk">>, subcategory |-> None,
      category_url |-> <<"https://varus.ua", "/", "milk">>],
     [id |-> 2, store |-> Varus, category |-> <<"Tea">>, subcategory |-> None,
      category_url |-> <<"https://varus.ua", "/", "tea", "-", "promo">>],
     [id |-> 3, store |-> Varus, category |-> <<"Sale">>, subcategory |-> None,
      category_url |-> <<"https://varus.ua", "/", "Promo">>],
     [id |-> 4, store |-> Varus, category |-> <<"Bread">>, subcategory |-> None,
      category_url |-> None],
     [id |-> 5, store |-> Varus, category |-> <<"Eggs">>, subcategory |-> None,
      category_url |-> <<>>],
     [id |-> 6, store |-> ATB, category |-> <<"Milk">>, subcategory |-> None,
      category_url |-> <<"https://atbmarket.com", "/", "milk">>],
     [id |-> 7, store |-> Varus, category |-> <<"Dairy">>, subcategory |-> None,
      category_url |-> <<"https://varus.ua", "/", "milk">>]}

LoadInit ==
    /\ categories \in SUBSET StoredCategories
    /\ cat_next_id = Cardinality(StoredCategories) + 1

DiscIdle ==
    /\ d_links = <<>>
    /\ d_runs = 0
    /\ d_last = "none"
    /\ d_saved = 0
    /\ d_skipped = 0
    /\ d_raised = FALSE
    /\ d_before = {}
    /\ d_loads = 0
    /\ d_requests = {}

\* -------------------------------------------------- pagination resolution
\* The pagination surface of a page: items, the texts of the pagination
\* item elements in document order, and last, the href of the "Go To Last"
\* element (None when the page has no such element).  An href is a token
\* sequence with "?", "&", "page=" and digits as tokens.

\* re.search(r'[?&]page=(\d+)', href): NoNum when there is no match
PageParam(href) ==
    LET starts == {i \in 1..(Len(href) - 2) : href[i] \in {"?", "&"} /\ href[i + 1] = "page="
                                              /\ href[i + 2] \in Digits}
    IN  IF ~TruthyText(href) \/ starts = {} THEN NoNum
        ELSE LET i == CHOOSE x \in starts : \A y \in starts : x <= y
             IN  Num(IntOf(SubSeq(href, i + 2, DigitRunEnd(href, i + 2))))

\* page_text.strip().isdigit()
IsDigitText(t) == LET u == RStrip(LStrip(t)) IN u # <<>> /\ Range(u) \subseteq Digits

\* BaseGrocerySpider.get_pagination_items: elements as [text, href]
get_pagination_items(page, store) ==
    LET items == [i \in DOMAIN page.items |-> [text |-> page.items[i], href |-> None]]
    IN  IF items = <<>> /\ store = Varus
        THEN IF page.last = None THEN <<>> ELSE <<[text |-> None, href |-> page.last]>>
        ELSE items

\* BaseGrocerySpider.extract_page_numbers: the set of the numbers found
extract_page_numbers(pagination_items) ==
    IF /\ Len(pagination_items) = 1
       /\ TruthyText(pagination_items[1].href)
       /\ "page=" \in Range(pagination_items[1].href)
       /\ IsNum(PageParam(pagination_items[1].href))
    THEN {Val(PageParam(pagination_items[1].href))}
    ELSE {IntOf(RStrip(LStrip(pagination_items[i].text))) :
              i \in {j \in DOMAIN pagination_items : /\ TruthyText(pagination_items[j].text)
                                                      /\ IsDigitText(pagination_items[j].text)}}

SetMax(S) == CHOOSE x \in S : \A y \in S : y <= x
PagesFrom2(n) == [k \in 1..(n - 1) |-> k + 1]

\* BaseGrocerySpider.handle_pagination: the page numbers requested
Base_handle_pagination(page, store) ==
    LET pag_block == page.items # <<>> \/ page.last # None
        pagination_items == get_pagination_items(page, store)
        page_numbers == extract_page_numbers(pagination_items)
    IN  IF pag_block /\ pagination_items # <<>> /\ page_numbers # {}
        THEN PagesFrom2(SetMax(page_numbers))
        ELSE <<>>

\* VarusSpider.handle_pagination: the page numbers requested
Varus_handle_pagination(page) ==
    IF page.last # None /\ IsNum(PageParam(page.last))
    THEN PagesFrom2(Val(PageParam(page.last)))
    ELSE <<>>

\* The same surface as the text curl returns: a numeric item n is a link
\* <a href="/c?page=n">n</a>, another item is its text between tags, the
\* last-page link is <a href="...">last</a>.
RECURSIVE RenderItems(_)
RenderItems(items) ==
    IF items = <<>> THEN <<>>
    ELSE (IF IsDigitText(items[1])
          THEN <<HREF, "/c", "?", "page=">> \o RStrip(LStrip(items[1])) \o <<QUOTE, ">">>
                   \o items[1] \o <<"<">>
          ELSE <<">">> \o items[1] \o <<"<">>) \o RenderItems(Tail(items))
RenderPage(page) ==
    <<"article-a">> \o RenderItems(page.items)
        \o (IF page.last = None THEN <<>> ELSE <<HREF>> \o page.last \o <<QUOTE, ">", "last", "<">>)

handle_pagination ==
    /\ p_resolver = "none"
    /\ p_resolver' = "base"
    /\ p_requests' = Base_handle_pagination(p_page, ATB)
    /\ p_result' = 1 + Len(p_requests')
    /\ UNCHANGED p_page
    /\ UNCHANGED <<crawl_vars, fetch_vars, cat_vars, atb_vars, disc_vars, price_vars, page_vars, pool_vars, card_vars, metro_vars>>

VarusSpider_handle_pagination ==
    /\ p_resolver = "none"
    /\ p_resolver' = "varus"
    /\ p_requests' = Varus_handle_pagination(p_page)
    /\ p_result' = 1 + Len(p_requests')
    /\ UNCHANGED p_page
    /\ UNCHANGED <<crawl_vars, fetch_vars, cat_vars, atb_vars, disc_vars, price_vars, page_vars, pool_vars, card_vars, metro_vars>>

ATBCurl_get_max_pages ==
    /\ p_resolver = "none"
    /\ p_resolver' = "atb"
    /\ p_result' = get_max_pages(RenderPage(p_page))
    /\ p_requests' = PagesFrom2(p_result')
    /\ UNCHANGED p_page
    /\ UNCHANGED <<crawl_vars, fetch_vars, cat_vars, atb_vars, disc_vars, price_vars, page_vars, pool_vars, card_vars, metro_vars>>

LabelTexts == {<<"1">>, <<"2">>, <<"3">>, <<"...">>}
LastLinks == {None, <<"/c", "?", "page=", "3">>, <<"/c", "?", "sort=", "asc", "&", "page=", "1", "2">>,
              <<"/c", "/", "last">>}

PagInit ==
    /\ p_page \in [items : UNION {[1..n -> LabelTexts] : n \in 0..MaxLabels}, last : LastLinks]
    /\ p_resolver = "none"
    /\ p_requests = <<>>
    /\ p_result = 0

PagIdle ==
    /\ p_page = [items |-> <<>>, last |-> None]
    /\ p_resolver = "none"
    /\ p_requests = <<>>
    /\ p_result = 0

\* ------------------------------- atb_curl_scraper.py: parse_product_html
\* The text of an article is a token sequence: a digit, ".", "," and " "
\* are one token each, "<span>" is a span tag without the coin class,
\* "<span coin>" one with class product-price__coin, "</span>" the closing
\* tag, "grn" and "UAH" the two currency signs, any other token other text.
At(s, k) == IF k \in DOMAIN s THEN s[k] ELSE ""
NoGroups == [ok |-> FALSE, main |-> <<>>, coin |-> <<>>]

\* (\d+)\.<span[^>]*>(\d+)</span> matched at token j; spans is the set of
\* span tags the pattern accepts
TwoPartAt(s, j, spans) ==
    LET e == DigitRunEnd(s, j)
        e2 == DigitRunEnd(s, e + 3)
    IN  IF e >= j /\ At(s, e + 1) = "." /\ At(s, e + 2) \in spans /\ e2 >= e + 3
           /\ At(s, e2 + 1) = "</span>"
        THEN [ok |-> TRUE, main |-> SubSeq(s, j, e), coin |-> SubSeq(s, e + 3, e2)]
        ELSE NoGroups

\* (\d+[.,]\d+)\s*CUR matched at token j
DecimalAt(s, j, cur) ==
    LET e == DigitRunEnd(s, j)
        e2 == DigitRunEnd(s, e + 2)
    IN  IF e >= j /\ At(s, e + 1) \in {".", ","} /\ e2 >= e + 2
           /\ At(s, SkipSpace(s, e2 + 1)) = cur
        THEN [ok |-> TRUE, main |-> SubSeq(s, j, e2), coin |-> <<>>]
        ELSE NoGroups

\* (\d+)\s*CUR matched at token j
IntegerAt(s, j, cur) ==
    LET e == DigitRunEnd(s, j)
    IN  IF e >= j /\ At(s, SkipSpace(s, e + 1)) = cur
        THEN [ok |-> TRUE, main |-> SubSeq(s, j, e), coin |-> <<>>]
        ELSE NoGroups

\* price_patterns[k] matched at token j
PricePatternAt(k, s, j) ==
    CASE k = 1 -> TwoPartAt(s, j, {"<span coin>"})
      [] k = 2 -> TwoPartAt(s, j, {"<span>", "<span coin>"})
      [] k = 3 -> DecimalAt(s, j, "grn")
      [] k = 4 -> IntegerAt(s, j, "grn")
      [] k = 5 -> DecimalAt(s, j, "UAH")
      [] k = 6 -> IntegerAt(s, j, "UAH")

\* re.search(price_patterns[k], html): the leftmost match
PriceSearch(k, s) ==
    LET starts == {j \in DOMAIN s : PricePatternAt(k, s, j).ok}
    IN  IF starts = {} THEN NoGroups
        ELSE PricePatternAt(k, s, CHOOSE j \in starts : \A i \in starts : j <= i)

\* the loop over price_patterns from pattern k on: the price, NoNum for None
RECURSIVE ResolvePrice(_, _)
ResolvePrice(html, k) ==
    IF k > 6 THEN NoNum
    ELSE LET m == PriceSearch(k, html)
             price_str == IF k <= 2 THEN m.main \o <<".">> \o m.coin ELSE CommaToDot(m.main)
         IN  IF m.ok /\ FloatOk(price_str) THEN Num(FloatOf(price_str))
             ELSE ResolvePrice(html, k + 1)

\* ATBCurlScraper.parse_product_html (NoProduct for a None result)
parse_product_html(card) ==
    LET name == IF card.name = None THEN <<>> ELSE RStrip(LStrip(card.name))
        price == ResolvePrice(card.html, 1)
    IN  IF name = <<>> THEN NoProduct
        ELSE IF ~TruthyNum(price) THEN NoProduct
        ELSE [name |-> name, price |-> price, store |-> ATB, url |-> None, scraped_at |-> "str"]

ATBCurl_parse_product_html ==
    /\ ~c_done
    /\ c_done' = TRUE
    /\ c_product' = parse_product_html(c_card)
    /\ UNCHANGED c_card
    /\ UNCHANGED <<crawl_vars, fetch_vars, cat_vars, atb_vars, disc_vars, pag_vars, page_vars, pool_vars, card_vars, metro_vars>>

PriceAlphabet == {"0", "5", ".", ",", "<span>", "</span>", " ", "grn"}
PriceExamples == {<<"8", "6", ".", "<span coin>", "9", "0", "</span>">>,
                  <<"1", "4", "9", ",", "5", "0", " ", "grn">>,
                  <<"x", " ", "9", ".", "9", "UAH">>,
                  <<"7", "UAH", "x">>}

PriceInit ==
    /\ c_card \in [name : {<<"a">>}, html : SeqsUpTo(PriceAlphabet, MaxPriceLen) \cup PriceExamples]
                     \cup [name : {None}, html : PriceExamples]
    /\ c_done = FALSE
    /\ c_product = NoProduct

PriceIdle ==
    /\ c_card = [name |-> None, html |-> <<>>]
    /\ c_done = FALSE
    /\ c_product = NoProduct

\* --------------------------------------------------------- fetching a page

RETRY_TIMES == 3
RETRY_HTTP_CODES == {500, 502, 503, 504, 408, 429, 403, 522, 524}
Transient == {"503", "429", "timeout", "timeout_other", "neterr"}
StatusOf(o) == CASE o = "200" -> 200 [] o = "404" -> 404 [] o = "503" -> 503
                 [] o = "429" -> 429 [] OTHER -> 0

\* Request(...) as the spiders build it: make_request and SilpoSpider's
\* requests leave dont_filter at its default False; the requests Scrapy
\* builds from start_urls carry dont_filter=True.
NewRequest(kind) == [retry_times |-> 0, playwright_retry_times |-> 0, retry_attempt |-> 0,
                     dont_filter |-> (kind = "varus_start"), download_delay |-> 0]

\* RetryMiddleware.process_request: the sleeps made so far and the one it
\* makes for this request
RetryMiddleware_process_request(req, sleeps) ==
    LET retry_attempt == req.retry_attempt
    IN  IF retry_attempt > 0 THEN Append(sleeps, 2 ^ (retry_attempt - 1)) ELSE sleeps

\* RetryMiddleware.process_response: [retry, req]; request.copy() keeps
\* dont_filter as it was.
process_response_unbounded(req, status) ==
    IF status \in RETRY_HTTP_CODES
    THEN [retry |-> TRUE, req |-> [req EXCEPT !.retry_times = @ + 1]]
    ELSE [retry |-> FALSE, req |-> req]
RetryMiddleware_process_response(req, status) ==
    IF status \in RETRY_HTTP_CODES /\ req.retry_times + 1 <= RETRY_TIMES
    THEN LET retry_times == req.retry_times + 1
         IN  [retry |-> TRUE,
              req |-> [req EXCEPT !.retry_times = retry_times,
                                  !.download_delay =
                                      IF status = 429 THEN (IF retry_times * 2 < 10 THEN retry_times * 2 ELSE 10)
                                      ELSE IF status = 403 THEN retry_times * 3 ELSE @]]
    ELSE [retry |-> FALSE, req |-> req]

\* PlaywrightTimeoutRetryMiddleware.process_exception for an exception whose
\* type name contains TimeoutError: "timeout" is one whose text mentions
\* Playwright, "timeout_other" one whose text does not
MentionsPlaywright(exception) == exception = "timeout"
PlaywrightTimeoutRetry_process_exception(req, exception) ==
    IF MentionsPlaywright(exception) /\ req.playwright_retry_times + 1 <= RETRY_TIMES
    THEN [retry |-> TRUE, req |-> [req EXCEPT !.playwright_retry_times = @ + 1,
                                              !.dont_filter = TRUE]]
    ELSE [retry |-> FALSE, req |-> req]

\* The engine hands a request to the scheduler; with DUPEFILTER_CLASS set to
\* RFPDupeFilter a request whose fingerprint (method, URL, body) was seen is
\* dropped unless it carries dont_filter.
engine_schedule ==
    /\ f_kind # "curl"
    /\ f_state = "new"
    /\ IF ~f_req.dont_filter /\ df_seen
       THEN f_state' = "dropped" /\ UNCHANGED df_seen
       ELSE f_state' = "scheduled" /\ df_seen' = (df_seen \/ ~f_req.dont_filter)
    /\ UNCHANGED <<f_kind, f_script, f_req, f_status, f_attempts, f_processed,
                   f_error_extracted, failed_urls, f_sleeps>>
    /\ UNCHANGED outside_fetch

\* A download, begun with RetryMiddleware.process_request, ends with an
\* HTTP response: RetryMiddleware.process_response
download_response ==
    /\ f_kind # "curl"
    /\ f_state = "scheduled"
    /\ f_attempts < Len(f_script)
    /\ f_script[f_attempts + 1] \in {"200", "404", "503", "429"}
    /\ f_attempts' = f_attempts + 1
    /\ f_sleeps' = RetryMiddleware_process_request(f_req, f_sleeps)
    /\ LET r == RetryMiddleware_process_response(f_req, StatusOf(f_script[f_attempts + 1]))
       IN  IF r.retry
           THEN f_req' = r.req /\ f_state' = "new" /\ UNCHANGED f_status
           ELSE f_state' = "response" /\ f_status' = StatusOf(f_script[f_attempts + 1])
                    /\ UNCHANGED f_req
    /\ UNCHANGED <<f_kind, f_script, df_seen, f_processed, f_error_extracted, failed_urls>>
    /\ UNCHANGED outside_fetch

\* A download, begun with RetryMiddleware.process_request, ends with a
\* TimeoutError: PlaywrightTimeoutRetryMiddleware.process_exception
download_timeout ==
    /\ f_kind # "curl"
    /\ f_state = "scheduled"
    /\ f_attempts < Len(f_script)
    /\ f_script[f_attempts + 1] \in {"timeout", "timeout_other"}
    /\ f_attempts' = f_attempts + 1
    /\ f_sleeps' = RetryMiddleware_process_request(f_req, f_sleeps)
    /\ LET r == PlaywrightTimeoutRetry_process_exception(f_req, f_script[f_attempts + 1])
       IN  IF r.retry THEN f_req' = r.req /\ f_state' = "new"
           ELSE f_state' = "exception" /\ UNCHANGED f_req
    /\ UNCHANGED <<f_kind, f_script, f_status, df_seen, f_processed, f_error_extracted,
                   failed_urls>>
    /\ UNCHANGED outside_fetch

\* The response reaches the spider: a 200 goes to the callback, which
\* extracts; any other status is turned into an HttpError for the errback
\* (MetroSpider.handle_pagination_404 reads failure.value.response).
\* SilpoSpider.errback records the URL in failed_urls; close_page_on_error
\* only closes the page; start_urls requests have no errback.
spider_input ==
    /\ f_kind # "curl"
    /\ f_state \in {"response", "exception"}
    /\ f_state' = "done"
    /\ IF f_state = "response" /\ f_status = 200
       THEN f_processed' = f_processed + 1 /\ UNCHANGED failed_urls
       ELSE /\ failed_urls' = IF f_kind = "silpo_start" THEN 1 ELSE failed_urls
            /\ UNCHANGED f_processed
    /\ UNCHANGED <<f_kind, f_script, f_req, f_status, df_seen, f_attempts, f_error_extracted,
                   f_sleeps>>
    /\ UNCHANGED outside_fetch

\* ATBCurlScraper.make_curl_request against the server script: curl is run
\* with -L and without --fail, so an HTTP error status still ends with return
\* code 0 and the error page on stdout; a timeout or a transport error is a
\* failed attempt.  [html, attempt, sleeps]: the text returned (None after
\* max_retries failures), the loop index it returned at, the seconds slept.
max_retries == 3
CurlBody(o) == CASE o = "200" -> <<"catalog-item">>
                 [] o = "404" -> <<"404">>
                 [] o = "503" -> <<"service unavailable">>
                 [] o = "429" -> <<"too many requests">>
                 [] OTHER -> <<>>
RECURSIVE make_curl_request(_, _, _)
make_curl_request(script, attempt, sleeps) ==
    IF attempt >= max_retries \/ attempt >= Len(script)
    THEN [html |-> None, attempt |-> attempt, sleeps |-> sleeps]
    ELSE LET stdout == CurlBody(script[attempt + 1])
         IN  IF stdout # <<>> THEN [html |-> stdout, attempt |-> attempt, sleeps |-> sleeps]
             ELSE make_curl_request(script, attempt + 1,
                      IF attempt < max_retries - 1
                      THEN Append(sleeps, 2 ^ attempt) ELSE sleeps)

\* scrape_single_page of ATBCurlScraper.scrape_category: fetch, classify,
\* hand the text to extract_products_from_html
HandedToExtraction(html) ==
    html # None /\ html # <<>> /\ ~is_cloudflare_protected(html) /\ ~is_empty_page(html)

scrape_single_page ==
    /\ f_kind = "curl"
    /\ f_state = "new"
    /\ LET r == make_curl_request(f_script, 0, <<>>)
       IN  /\ f_attempts' = IF r.html = None THEN r.attempt ELSE r.attempt + 1
           /\ f_req' = [f_req EXCEPT !.retry_times = IF r.html = None THEN r.attempt - 1 ELSE r.attempt]
           /\ f_processed' = IF HandedToExtraction(r.html) /\ r.html = CurlBody("200")
                             THEN f_processed + 1 ELSE f_processed
           /\ f_error_extracted' = IF HandedToExtraction(r.html) /\ r.html # CurlBody("200")
                                   THEN f_error_extracted + 1 ELSE f_error_extracted
           /\ f_sleeps' = r.sleeps
    /\ f_state' = "done"
    /\ UNCHANGED <<f_kind, f_script, f_status, df_seen, failed_urls>>
    /\ UNCHANGED outside_fetch

ScrapyOutcomes == {"200", "404", "503", "429", "timeout", "timeout_other"}
CurlOutcomes == {"200", "404", "503", "429", "timeout", "neterr"}

FetchInit ==
    /\ f_kind \in {"varus_start", "category", "silpo_start", "curl"}
    /\ f_script \in [1..MaxAttempts -> IF f_kind = "curl" THEN CurlOutcomes ELSE ScrapyOutcomes]
    /\ f_req = NewRequest(f_kind)
    /\ f_state = "new"
    /\ f_status = 0
    /\ df_seen = FALSE
    /\ f_attempts = 0
    /\ f_processed = 0
    /\ f_error_extracted = 0
    /\ failed_urls = 0
    /\ f_sleeps = <<>>

\* A fetch against a server that answers 503, times out or delivers, for
\* longer than any retry budget lasts
FailingOutcomes == {"503", "timeout", "200"}
RetryInit ==
    /\ f_kind \in {"varus_start", "category", "curl"}
    /\ f_script \in [1..MaxScript -> FailingOutcomes]
    /\ f_req = NewRequest(f_kind)
    /\ f_state = "new"
    /\ f_status = 0
    /\ df_seen = FALSE
    /\ f_attempts = 0
    /\ f_processed = 0
    /\ f_error_extracted = 0
    /\ failed_urls = 0
    /\ f_sleeps = <<>>

FetchIdle ==
    /\ f_kind = "none"
    /\ f_script = <<>>
    /\ f_req = NewRequest("none")
    /\ f_state = "idle"
    /\ f_status = 0
    /\ df_seen = FALSE
    /\ f_attempts = 0
    /\ f_processed = 0
    /\ f_error_extracted = 0
    /\ failed_urls = 0
    /\ f_sleeps = <<>>

FetchNext ==
    \/ engine_schedule
    \/ download_response
    \/ download_timeout
    \/ spider_input
    \/ scrape_single_page

\* -------------------------------------------- the pages of one category
\* A page of the category as the store serves it: the status of the answer
\* and the product cards on it.  BadHref is an href for which
\* urljoin(response.url, href) raises ValueError ("http://[").
BadHref == <<"http://[">>
CatCards == {[title |-> <<"a">>, price_text |-> <<"5">>, href |-> None],
             [title |-> <<"b">>, price_text |-> <<"5">>, href |-> None],
             [title |-> <<"a">>, price_text |-> <<"5">>, href |-> BadHref]}
CatPages == {[status |-> "404", cards |-> <<>>]}
                \cup [status : {"200"}, cards : {<<>>} \cup {<<c>> : c \in CatCards}]

\* the digits of a page number below ten
PageDigits(k) == <<<<"1">>, <<"2">>, <<"3">>, <<"4">>, <<"5">>, <<"6">>, <<"7">>, <<"8">>, <<"9">>>>[k]
CatLastLinks == {None} \cup {<<"/c", "?", "page=">> \o PageDigits(k) : k \in 2..MaxCatPages}

\* VarusSpider.extract_product raises: name and price are found and urljoin
\* fails on the href
ExtractRaises(card) ==
    /\ TruthyText(card.title)
    /\ TruthyText(card.price_text)
    /\ TruthyNum(clean_price(card.price_text))
    /\ card.href = BadHref

\* The card loop of VarusSpider.parse_category as far as it gets:
\* [st, out, raised] - the crawl state, the products yielded, whether
\* extract_product raised (which ends the generator)
RECURSIVE Varus_card_loop(_, _, _)
Varus_card_loop(st, out, cards) ==
    IF cards = <<>> THEN [st |-> st, out |-> out, raised |-> FALSE]
    ELSE IF ExtractRaises(Head(cards)) THEN [st |-> st, out |-> out, raised |-> TRUE]
    ELSE LET product == Varus_extract_product(Head(cards), Varus)
         IN  IF product = NoProduct THEN Varus_card_loop(st, out, Tail(cards))
             ELSE Varus_card_loop(RunPipelines(save_product(st, product), product),
                                  Append(out, product), Tail(cards))

\* ScrapyPlaywrightDownloadHandler answers a scheduled request made with
\* playwright_include_page: the browser page stays open and travels with
\* the response in meta['playwright_page']
playwright_download ==
    /\ phase = "crawl"
    /\ \E n \in g_sched :
          /\ g_sched' = g_sched \ {n}
          /\ g_ready' = g_ready \cup {n}
          /\ g_open' = g_open \cup {n}
    /\ UNCHANGED <<g_site, g_last, g_done>>
    /\ UNCHANGED <<crawl_vars, fetch_vars, cat_vars, atb_vars, disc_vars, pag_vars, price_vars,
                   pool_vars, card_vars, metro_vars>>

\* VarusSpider.parse_category on the 200 response of page n: the card loop,
\* the page close, and on page 1 handle_pagination
VarusSpider_parse_category ==
    /\ phase = "crawl"
    /\ \E n \in g_ready :
          /\ g_site[n].status = "200"
          /\ LET r == Varus_card_loop(CrawlState, <<>>, g_site[n].cards)
                 requested == IF n = 1 /\ ~r.raised
                              THEN Range(Varus_handle_pagination([items |-> <<>>, last |-> g_last]))
                              ELSE {}
             IN  /\ SetCrawlState(r.st)
                 /\ yielded' = yielded \o r.out
                 /\ g_open' = IF r.raised THEN g_open ELSE g_open \ {n}
                 /\ g_sched' = g_sched \cup requested
          /\ g_ready' = g_ready \ {n}
          /\ g_done' = Append(g_done, n)
    /\ UNCHANGED <<g_site, g_last>>
    /\ UNCHANGED <<phase, run, first_run, api_saved, inputs_used>>
    /\ UNCHANGED <<fetch_vars, cat_vars, atb_vars, disc_vars, pag_vars, price_vars, pool_vars, card_vars, metro_vars>>

\* VarusSpider.close_page_on_error, the errback of the request, on the 404
\* answer of page n (HttpError)
VarusSpider_close_page_on_error ==
    /\ phase = "crawl"
    /\ \E n \in g_ready :
          /\ g_site[n].status = "404"
          /\ g_open' = g_open \ {n}
          /\ g_ready' = g_ready \ {n}
          /\ g_done' = Append(g_done, n)
    /\ UNCHANGED <<g_site, g_last, g_sched>>
    /\ UNCHANGED <<crawl_vars, fetch_vars, cat_vars, atb_vars, disc_vars, pag_vars, price_vars,
                   pool_vars, card_vars, metro_vars>>

\* The engine is idle: the spider is closed, DatabasePipeline.close_spider
spider_closed ==
    /\ g_sched = {}
    /\ g_ready = {}
    /\ close_spider

PageInit ==
    /\ g_site \in [1..MaxCatPages -> CatPages]
    /\ g_last \in CatLastLinks
    /\ g_sched = {1}
    /\ g_ready = {}
    /\ g_done = <<>>
    /\ g_open = {}

PageIdle ==
    /\ g_site = <<>>
    /\ g_last = None
    /\ g_sched = {}
    /\ g_ready = {}
    /\ g_done = <<>>
    /\ g_open = {}

\* ------------------------------ the worker pool of ATBCurlScraper.scrape_category
\* ThreadPoolExecutor(max_workers=5)
all_workers == MaxPoolPages + 1
max_workers == 5

\* The text of page n of a category of last pages: an article, and on page
\* 1 the link to the last page
PoolPage(n, last) ==
    <<(IF n % 2 = 1 THEN "article-a" ELSE "article-b")>>
        \o (IF n = 1 /\ last > 1
            THEN <<HREF, "/c?", "page=">> \o PageDigits(last) \o <<QUOTE, ">">>
                     \o PageDigits(last) \o <<"<">>
            ELSE <<>>)

\* The sites: a category of last pages of which at most one, the second or
\* the last, is not delivered (make_curl_request returns None) or is an
\* empty result
PoolSites ==
    UNION {{[n \in 1..last |-> PoolPage(n, last)]}
              \cup {[n \in 1..last |-> IF n = bad THEN html ELSE PoolPage(n, last)] :
                       bad \in {2, last} \ {1}, html \in {None, <<"no products found">>}} :
           last \in 1..MaxPoolPages}

\* what the future of page n holds when it is done: the list
\* scrape_single_page returned, nothing when it raised
FutureResult(n) == IF n \in w_raises THEN <<>> ELSE ScrapeSinglePage(SitePage(w_site, n))

\* scrape_category up to the with block: establish_session, save_category,
\* get_max_pages, executor.submit for every page
ATBCurl_submit_pages ==
    /\ w_pc = "start"
    /\ IF ~establish_session(a_session)
       THEN /\ w_pc' = "done"
            /\ w_total' = 0
            /\ UNCHANGED <<w_max_pages, w_queue, cat_vars>>
       ELSE LET cdb == save_category([rows |-> categories, next |-> cat_next_id],
                                     CategoryName(get_categories[1]),
                                     CategoryUrl(get_categories[1]))
                max_pages == get_max_pages(SitePage(w_site, 1))
            IN  /\ categories' = cdb.rows
                /\ cat_next_id' = cdb.next
                /\ w_max_pages' = max_pages
                /\ w_queue' = [n \in 1..max_pages |-> n]
                /\ w_pc' = "pool"
                /\ UNCHANGED w_total
    /\ UNCHANGED <<w_site, w_raises, w_running, w_started, w_completed, w_products>>
    /\ UNCHANGED <<crawl_vars, fetch_vars, atb_vars, disc_vars, pag_vars, price_vars, page_vars, card_vars, metro_vars>>

\* An idle worker thread of the executor takes the next submitted page and
\* calls scrape_single_page
worker_start ==
    /\ w_pc = "pool"
    /\ w_queue # <<>>
    /\ Cardinality(w_running) < max_workers
    /\ w_running' = w_running \cup {Head(w_queue)}
    /\ w_started' = Append(w_started, Head(w_queue))
    /\ w_queue' = Tail(w_queue)
    /\ UNCHANGED <<w_site, w_raises, w_pc, w_max_pages, w_completed, w_products, w_total>>
    /\ UNCHANGED <<crawl_vars, fetch_vars, cat_vars, atb_vars, disc_vars, pag_vars, price_vars,
                   page_vars, card_vars, metro_vars>>

\* scrape_single_page of a page ends and as_completed hands its future to
\* the loop of scrape_category: future.result() extends all_products or
\* raises into the except branch
future_completed ==
    /\ w_pc = "pool"
    /\ \E page \in w_running :
          /\ w_running' = w_running \ {page}
          /\ w_completed' = Append(w_completed, page)
          /\ w_products' = w_products \o FutureResult(page)
    /\ UNCHANGED <<w_site, w_raises, w_pc, w_max_pages, w_queue, w_started, w_total>>
    /\ UNCHANGED <<crawl_vars, fetch_vars, cat_vars, atb_vars, disc_vars, pag_vars, price_vars,
                   page_vars, card_vars, metro_vars>>

\* scrape_category after the with block, which ends when every future is
\* done: save_products(all_products), return total_products
ATBCurl_save_all_products ==
    /\ w_pc = "pool"
    /\ w_queue = <<>>
    /\ w_running = {}
    /\ LET saved == save_products([rows |-> products, next |-> next_id], w_products)
       IN  /\ products' = saved.rows
           /\ next_id' = saved.next
           /\ w_total' = saved.saved
    /\ w_pc' = "done"
    /\ UNCHANGED <<w_site, w_raises, w_max_pages, w_queue, w_running, w_started, w_completed,
                   w_products>>
    /\ UNCHANGED <<seen_products, duplicate_count, batch_items, items_processed, items_saved,
                   items_failed, items_scraped, phase, run, first_run, yielded, api_saved,
                   inputs_used>>
    /\ UNCHANGED <<fetch_vars, cat_vars, atb_vars, disc_vars, pag_vars, price_vars, page_vars, card_vars, metro_vars>>

PoolInit ==
    /\ w_site \in PoolSites
    /\ w_raises \in {{}, {1}, {Len(w_site)}}
    /\ w_pc = "start"
    /\ w_max_pages = 0
    /\ w_queue = <<>>
    /\ w_running = {}
    /\ w_started = <<>>
    /\ w_completed = <<>>
    /\ w_products = <<>>
    /\ w_total = 0 - 1

PoolIdle ==
    /\ w_site = <<>>
    /\ w_raises = {}
    /\ w_pc = "start"
    /\ w_max_pages = 0
    /\ w_queue = <<>>
    /\ w_running = {}
    /\ w_started = <<>>
    /\ w_completed = <<>>
    /\ w_products = <<>>
    /\ w_total = 0 - 1

\* ------------------------------------------------------------ product cards
MaxElems == 2

OOS == "sf-product-card--out-of-stock-container"

\* An element of a listing page: its tag, its class attribute, its data-testid
\* attribute, and whether an ancestor of it has the class sf-product-card.
Elements ==
    {[tag |-> "div", class |-> "sf-product-card", testid |-> "", in_card |-> FALSE],
     [tag |-> OOS, class |-> "", testid |-> "", in_card |-> TRUE],
     [tag |-> OOS, class |-> "sf-product-card", testid |-> "", in_card |-> TRUE],
     [tag |-> "div", class |-> "product-tile", testid |-> "product-tile", in_card |-> FALSE],
     [tag |-> "article", class |-> "", testid |-> "", in_card |-> FALSE],
     [tag |-> "div", class |-> "goods-tile", testid |-> "", in_card |-> FALSE],
     [tag |-> "div", class |-> "", testid |-> "", in_card |-> FALSE]}

\* An ancestor precedes its descendants in document order.
Docs ==
    {doc \in UNION {[1..n -> Elements] : n \in 0..MaxElems} :
        \A i \in 1..Len(doc) :
            doc[i].in_card => \E j \in 1..(i - 1) : doc[j].class = "sf-product-card"}

\* [class*="needle"]: the needle occurs in the class attribute
ClassContains(class, needle) ==
    CASE class = "sf-product-card" -> needle \in {"product-card", "product"}
      [] class = "product-tile" -> needle \in {"product-tile", "product"}
      [] OTHER -> FALSE

\* Whether a CSS selector used by the spiders selects the element
Matches(selector, el) ==
    CASE selector = ".sf-product-card" -> el.class = "sf-product-card"
      [] selector = ".sf-product-card sf-product-card--out-of-stock-container" ->
             el.tag = OOS /\ el.in_card
      [] selector = "[data-testid=product-tile]" -> el.testid = "product-tile"
      [] selector = "[class*=ProductTile]" -> ClassContains(el.class, "ProductTile")
      [] selector = "[class*=product-tile]" -> ClassContains(el.class, "product-tile")
      [] selector = "[class*=ProductCard]" -> ClassContains(el.class, "ProductCard")
      [] selector = "[class*=product-card]" -> ClassContains(el.class, "product-card")
      [] selector = "[class*=SearchResultItem]" -> ClassContains(el.class, "SearchResultItem")
      [] selector = "article[class*=product]" ->
             el.tag = "article" /\ ClassContains(el.class, "product")
      [] selector = "article" -> el.tag = "article"
      [] selector = ".goods-tile" -> el.class = "goods-tile"
      [] selector = ".product-item" -> el.class = "product-item"
      [] OTHER -> FALSE

\* response.css(selector): the selected elements in document order
css(doc, selector) ==
    SelectSeq([i \in 1..Len(doc) |-> i], LAMBDA i : Matches(selector, doc[i]))

\* VarusSpider.product_card_selector
product_card_selector ==
    <<".sf-product-card", ".sf-product-card sf-product-card--out-of-stock-container">>

\* MetroSpider.parse_search_results: selectors_to_try
selectors_to_try ==
    <<"[data-testid=product-tile]", "[class*=ProductTile]", "[class*=product-tile]",
      "[class*=ProductCard]", "[class*=product-card]", "[class*=SearchResultItem]",
      "article[class*=product]", "article", ".goods-tile", ".product-item">>

\* for selector in self.product_card_selector: product_cards.extend(response.css(selector))
RECURSIVE extend_cards(_, _, _)
extend_cards(product_cards, doc, selectors) ==
    IF selectors = <<>> THEN product_cards
    ELSE extend_cards(product_cards \o css(doc, Head(selectors)), doc, Tail(selectors))

\* BaseGrocerySpider.get_product_cards; the only configured selector is a list
get_product_cards(doc) == extend_cards(<<>>, doc, product_card_selector)

\* VarusSpider.parse_category: the loop that fills product_cards
Varus_product_cards(doc) == extend_cards(<<>>, doc, product_card_selector)

\* MetroSpider.parse_search_results: the loop over selectors_to_try
RECURSIVE Metro_products(_, _)
Metro_products(doc, selectors) ==
    IF selectors = <<>> THEN <<>>
    ELSE LET selector == Head(selectors)
             found == css(doc, selector)
             product_tiles == css(doc, "[data-testid=product-tile]")
         IN  IF found # <<>>
             THEN IF selector = "article" /\ Len(found) = 1 /\ product_tiles # <<>>
                  THEN product_tiles
                  ELSE found
             ELSE Metro_products(doc, Tail(selectors))

SetCards(spider, cards) ==
    /\ k_spider = "none"
    /\ k_spider' = spider
    /\ k_cards' = cards
    /\ UNCHANGED k_doc

VarusSpider_select_cards ==
    /\ SetCards("varus", Varus_product_cards(k_doc))
    /\ UNCHANGED <<crawl_vars, fetch_vars, cat_vars, atb_vars, disc_vars, pag_vars, price_vars, page_vars,
                   pool_vars, metro_vars>>

BaseGrocerySpider_get_product_cards ==
    /\ SetCards("base", get_product_cards(k_doc))
    /\ UNCHANGED <<crawl_vars, fetch_vars, cat_vars, atb_vars, disc_vars, pag_vars, price_vars, page_vars,
                   pool_vars, metro_vars>>

MetroSpider_select_cards ==
    /\ SetCards("metro", Metro_products(k_doc, selectors_to_try))
    /\ UNCHANGED <<crawl_vars, fetch_vars, cat_vars, atb_vars, disc_vars, pag_vars, price_vars, page_vars,
                   pool_vars, metro_vars>>

CardInit ==
    /\ k_doc \in Docs
    /\ k_spider = "none"
    /\ k_cards = <<>>

CardIdle ==
    /\ k_doc = <<>>
    /\ k_spider = "none"
    /\ k_cards = <<>>

\* ------------------------------------------------ metro_spider.py: pagination
\* How the server answers a page number past the last page: with a page
\* without product cards, with 404, with a redirect to the URL of the first
\* page, or with the content of the first page under the requested URL.
PastTheEnd == {"empty", "404", "redirect", "repeat"}

MetroSites ==
    [pages : UNION {[1..n -> 0..2] : n \in 1..MaxMetroPages}, past : PastTheEnd]

\* The response to the request for page k of the category: status, whether
\* response.url carries 'page=', and the number of elements the card
\* selectors select
MetroResponse(site, k) ==
    IF k <= Len(site.pages)
    THEN [status |-> 200, page_in_url |-> (k > 1), products |-> site.pages[k]]
    ELSE CASE site.past = "empty" -> [status |-> 200, page_in_url |-> TRUE, products |-> 0]
           [] site.past = "404" -> [status |-> 404, page_in_url |-> TRUE, products |-> 0]
           [] site.past = "redirect" ->
                  [status |-> 200, page_in_url |-> FALSE, products |-> site.pages[1]]
           [] OTHER -> [status |-> 200, page_in_url |-> TRUE, products |-> site.pages[1]]

\* MetroSpider.parse_search_results on the response to the request that is
\* out: "no products" return, redirect test, request for the next page
MetroSpider_parse_search_results ==
    /\ m_pc = "request"
    /\ m_requests < MaxMetroRequests
    /\ LET response == MetroResponse(m_site, m_page)
           current_page == m_page
           found == response.products
       IN  /\ response.status = 200
           /\ IF found = 0
              THEN m_pc' = "no products" /\ UNCHANGED <<m_page, m_requests>>
              ELSE IF current_page > 1 /\ ~response.page_in_url
              THEN m_pc' = "redirected" /\ UNCHANGED <<m_page, m_requests>>
              ELSE /\ m_page' = current_page + 1
                   /\ m_requests' = m_requests + 1
                   /\ UNCHANGED m_pc
    /\ UNCHANGED m_site
    /\ UNCHANGED <<crawl_vars, fetch_vars, cat_vars, atb_vars, disc_vars, pag_vars, price_vars, page_vars,
                   pool_vars, card_vars>>

\* MetroSpider.handle_pagination_404: the errback of a page request
MetroSpider_handle_pagination_404 ==
    /\ m_pc = "request"
    /\ MetroResponse(m_site, m_page).status = 404
    /\ m_pc' = "404"
    /\ UNCHANGED <<m_site, m_page, m_requests>>
    /\ UNCHANGED <<crawl_vars, fetch_vars, cat_vars, atb_vars, disc_vars, pag_vars, price_vars, page_vars,
                   pool_vars, card_vars>>

MetroInit ==
    /\ m_site \in MetroSites
    /\ m_page = 1
    /\ m_requests = 1
    /\ m_pc = "request"

MetroIdle ==
    /\ m_site = [pages |-> <<0>>, past |-> "empty"]
    /\ m_page = 1
    /\ m_requests = 0
    /\ m_pc = "idle"

\* ------------------------------------------------------- the crawl machine

CrawlInit ==
    /\ products = {}
    /\ next_id = 1
    /\ seen_products = {}
    /\ duplicate_count = 0
    /\ batch_items = <<>>
    /\ items_processed = 0
    /\ items_saved = 0
    /\ items_failed = 0
    /\ items_scraped = 0
    /\ phase = "crawl"
    /\ run = 1
    /\ first_run = [yielded |-> <<>>, api_saved |-> <<>>, rows |-> 0]
    /\ yielded = <<>>
    /\ api_saved = <<>>
    /\ inputs_used = 0

CrawlNext ==
    \/ Varus_parse_category
    \/ Base_parse_category
    \/ Silpo_item
    \/ ATBScraper_scrape
    \/ close_spider
    \/ start_spider

\* ---------------------------------------------------------- specifications
vars == <<crawl_vars, fetch_vars, cat_vars, atb_vars, disc_vars, pag_vars, price_vars, page_vars,
          pool_vars, card_vars, metro_vars>>

\* The product crawl: spiders, pipelines and the API scraper on one database
Init == CrawlInit /\ FetchIdle /\ CatInit /\ AtbIdle /\ DiscIdle /\ PagIdle /\ PriceIdle
    /\ PageIdle /\ PoolIdle /\ CardIdle /\ MetroIdle
Next == CrawlNext
Spec == Init /\ [][Next]_vars

\* One fetch task against a scripted server
InitFetch == FetchInit /\ CrawlInit /\ CatInit /\ AtbIdle /\ DiscIdle /\ PagIdle /\ PriceIdle
    /\ PageIdle /\ PoolIdle /\ CardIdle /\ MetroIdle
NextFetch == FetchNext
SpecFetch == InitFetch /\ [][NextFetch]_vars

\* One fetch task against a server that keeps failing
InitRetry == RetryInit /\ CrawlInit /\ CatInit /\ AtbIdle /\ DiscIdle /\ PagIdle /\ PriceIdle
    /\ PageIdle /\ PoolIdle /\ CardIdle /\ MetroIdle
NextRetry == FetchNext
SpecRetry == InitRetry /\ [][NextRetry]_vars

\* ATBCurlScraper scraping one category of a site, run after run
InitATB == AtbInit /\ CrawlInit /\ CatInit /\ FetchIdle /\ DiscIdle /\ PagIdle /\ PriceIdle
    /\ PageIdle /\ PoolIdle /\ CardIdle /\ MetroIdle
NextATB == scrape_category
SpecATB == InitATB /\ [][NextATB]_vars

\* Category discovery of the Varus spider on the main page of the store, run
\* after run, on the database the ATB scraper writes its category to
InitDiscover == DiscInit /\ CrawlInit /\ CatInit /\ FetchIdle /\ AtbHome /\ PagIdle /\ PriceIdle
    /\ PageIdle /\ PoolIdle /\ CardIdle /\ MetroIdle
NextDiscover ==
    \/ discover_categories
    \/ discover_categories_with_js
    \/ parse_all_categories_from_db
    \/ main_page_changes
    \/ scrape_category
SpecDiscover == InitDiscover /\ [][NextDiscover]_vars

\* Pagination resolution on one first page by each of the resolvers
InitPagination == PagInit /\ CrawlInit /\ CatInit /\ FetchIdle /\ AtbIdle /\ DiscIdle /\ PriceIdle
    /\ PageIdle /\ PoolIdle /\ CardIdle /\ MetroIdle
NextPagination == handle_pagination \/ VarusSpider_handle_pagination \/ ATBCurl_get_max_pages
SpecPagination == InitPagination /\ [][NextPagination]_vars

\* Price resolution for one product card
InitPrice == PriceInit /\ CrawlInit /\ CatInit /\ FetchIdle /\ AtbIdle /\ DiscIdle /\ PagIdle
    /\ PageIdle /\ PoolIdle /\ CardIdle /\ MetroIdle
NextPrice == ATBCurl_parse_product_html
SpecPrice == InitPrice /\ [][NextPrice]_vars

\* VarusSpider on the pages of one category
InitCategory == PageInit /\ CrawlInit /\ CatInit /\ FetchIdle /\ AtbIdle /\ DiscIdle /\ PagIdle
    /\ PriceIdle /\ PoolIdle /\ CardIdle /\ MetroIdle
NextCategory ==
    \/ playwright_download
    \/ VarusSpider_parse_category
    \/ VarusSpider_close_page_on_error
    \/ spider_closed
SpecCategory == InitCategory /\ [][NextCategory]_vars

\* ATBCurlScraper.scrape_category with its pool of worker threads
InitPool == PoolInit /\ CrawlInit /\ CatInit /\ FetchIdle /\ DiscIdle /\ PagIdle /\ PriceIdle
    /\ PageIdle /\ a_session \in {<<"home">>, <<"Just a moment">>} /\ a_site = <<>>
    /\ a_runs = 0 /\ a_return = 0 - 1 /\ CardIdle /\ MetroIdle
NextPool ==
    \/ ATBCurl_submit_pages
    \/ worker_start
    \/ future_completed
    \/ ATBCurl_save_all_products
SpecPool == InitPool /\ [][NextPool]_vars

\* DatabasePipeline on a run of more items than two batches
InitBatch == CrawlInit /\ FetchIdle /\ CatInit /\ AtbIdle /\ DiscIdle /\ PagIdle /\ PriceIdle
    /\ PageIdle /\ PoolIdle /\ CardIdle /\ MetroIdle
NextBatch == accepted_item \/ close_spider
SpecBatch == InitBatch /\ [][NextBatch]_vars

\* The card selection of each spider on one listing page
InitCards == CardInit /\ CrawlInit /\ CatInit /\ FetchIdle /\ AtbIdle /\ DiscIdle /\ PagIdle
    /\ PriceIdle /\ PageIdle /\ PoolIdle /\ MetroIdle
NextCards ==
    \/ VarusSpider_select_cards
    \/ BaseGrocerySpider_get_product_cards
    \/ MetroSpider_select_cards
SpecCards == InitCards /\ [][NextCards]_vars

\* Product items and category items through the item pipelines
InitItems == CrawlInit /\ FetchIdle /\ CatInit /\ AtbIdle /\ DiscIdle /\ PagIdle /\ PriceIdle
    /\ PageIdle /\ PoolIdle /\ CardIdle /\ MetroIdle
NextItems == Metro_category_item \/ Silpo_item \/ close_spider
SpecItems == InitItems /\ [][NextItems]_vars

\* Metro's pagination of one category
InitMetro == MetroInit /\ CrawlInit /\ CatInit /\ FetchIdle /\ AtbIdle /\ DiscIdle /\ PagIdle
    /\ PriceIdle /\ PageIdle /\ PoolIdle /\ CardIdle
NextMetro == MetroSpider_parse_search_results \/ MetroSpider_handle_pagination_404
SpecMetro == InitMetro /\ [][NextMetro]_vars

\* The product crawl loads the categories of a database left by earlier runs
InitLoad == LoadInit /\ DiscIdle /\ CrawlInit /\ FetchIdle /\ AtbIdle /\ PagIdle /\ PriceIdle
    /\ PageIdle /\ PoolIdle /\ CardIdle /\ MetroIdle
NextLoad == parse_all_categories_from_db
SpecLoad == InitLoad /\ [][NextLoad]_vars

\* ------------------------------------------------------------------ claims
\* C1: every row of the products table has price > 0 and a non-empty name.
C1_RowsHavePositivePriceAndName ==
    \A r \in products : IsNum(r.price) /\ Val(r.price) > 0 /\ r.name # <<>> /\ r.name # None

\* C2: persisting the same product records in a second run leaves the
\* products table with the row count the first run left, url absent or not.
C2_SecondRunAddsNoRows ==
    (run = 2 /\ phase = "closed" /\ yielded = first_run.yielded
        /\ api_saved = first_run.api_saved)
    => Cardinality(products) = first_run.rows

\* C3: two valid items of one run with the same store and the same
\* (present) url leave exactly one persisted row for that (store, url) and
\* each repeat counts exactly one duplicate, whatever the names and the order.
SameStoreUrl(a, b) == a.store = b.store /\ a.url = b.url
RepeatsInRun == {j \in DOMAIN yielded :
                    /\ validate_product_data(yielded[j])
                    /\ \E i \in 1..(j - 1) : /\ validate_product_data(yielded[i])
                                             /\ SameStoreUrl(yielded[i], yielded[j])}
C3_OneRowOneDuplicate ==
    (run = 1 /\ phase = "closed" /\ api_saved = <<>>)
    => \A i, j \in DOMAIN yielded :
          (/\ i < j
           /\ SameStoreUrl(yielded[i], yielded[j])
           /\ yielded[i].url # None
           /\ validate_product_data(yielded[i])
           /\ validate_product_data(yielded[j])
           /\ \A k \in DOMAIN yielded \ {i, j} : ~SameStoreUrl(yielded[k], yielded[i]))
          => /\ Cardinality({r \in products : r.store = yielded[i].store
                                               /\ r.url = yielded[i].url}) = 1
             /\ duplicate_count = Cardinality(RepeatsInRun)

\* C4: a fetch task whose first two attempts fail transiently and whose third
\* succeeds has its page content handed to extraction exactly once, no error
\* content, and its retry counter reads 2 when the task is over.
TaskOver == f_state \in {"done", "dropped"}
RetryCounter == f_req.retry_times + f_req.playwright_retry_times
C4_TwoFailuresThenSuccess ==
    (TaskOver /\ f_script[1] \in Transient /\ f_script[2] \in Transient /\ f_script[3] = "200")
    => (f_processed = 1 /\ f_error_extracted = 0 /\ RetryCounter = 2)

\* C5: a fetch task whose every attempt fails transiently is counted as
\* failed once it is over, and no response content of it is handed to
\* extraction.
C5_ExhaustedIsCountedFailed ==
    (TaskOver /\ \A i \in DOMAIN f_script : f_script[i] \in Transient)
    => (failed_urls = 1 /\ f_error_extracted = 0 /\ f_processed = 0)

\* C6: a page that carries a challenge fingerprint is classified blocked and
\* never empty, and a category all of whose pages are blocked does not
\* complete with a result of zero products.
FetchedPages == {SitePage(a_site, n) : n \in 1..get_max_pages(SitePage(a_site, 1))}
C6_BlockedIsNotEmptyNorZero ==
    (a_runs >= 1 /\ establish_session(a_session))
    => /\ \A html \in FetchedPages \ {None} : is_cloudflare_protected(html) => ~is_empty_page(html)
       /\ (\A html \in FetchedPages : html # None /\ is_cloudflare_protected(html)) => a_return # 0

\* C7: after a discovery run the saved categories of the store are exactly
\* the candidate links whose absolute URL contains no exclusion pattern,
\* compared case-insensitively.
SavedUrls == {r.category_url : r \in {x \in categories : x.store = Varus}}
KeptLinks == {l \in Range(d_links) : ~is_category_excluded(urljoin(l.href))}
C7_SavedAreTheNonExcludedLinks ==
    d_last # "none" => SavedUrls = {urljoin(l.href) : l \in KeptLinks}

\* C10: after a discovery run the categories table has at most one row for
\* each (store, category, subcategory), a row without subcategory included.
C10_NoDuplicateCategoryRows ==
    d_last # "none"
    => \A r1, r2 \in categories :
          (r1.store = r2.store /\ r1.category = r2.category /\ r1.subcategory = r2.subcategory)
          => r1 = r2

\* C8: resolution on a first page gives the page index of the go-to-last
\* link when the page has one, N when it has none and the labels 1..N are
\* visible, 1 when the page has no pagination surface, and never less than 1.
LabelsAre1ToN(n) ==
    /\ Len(p_page.items) = n
    /\ \A i \in 1..n : IsDigitText(p_page.items[i]) /\ IntOf(p_page.items[i]) = i
C8_PaginationResolved ==
    p_resolver # "none"
    => /\ p_result >= 1
       /\ IsNum(PageParam(p_page.last)) => p_result = Max(1, Val(PageParam(p_page.last)))
       /\ \A n \in 1..Len(p_page.items) :
             (~IsNum(PageParam(p_page.last)) /\ LabelsAre1ToN(n)) => p_result = n
       /\ (p_page.items = <<>> /\ p_page.last = None) => p_result = 1

\* The text of the card without the white space and other text around the
\* price, and the two renderings of a price: I.<span>F</span> and a decimal
\* I,F or I.F followed by the currency.  Shape is [ok, main, frac].
Pad == {" ", "x"}
RECURSIVE StripPadLeft(_)
StripPadLeft(s) == IF s # <<>> /\ s[1] \in Pad THEN StripPadLeft(Tail(s)) ELSE s
RECURSIVE StripPadRight(_)
StripPadRight(s) == IF s # <<>> /\ s[Len(s)] \in Pad
                    THEN StripPadRight(SubSeq(s, 1, Len(s) - 1)) ELSE s
Core(html) == StripPadRight(StripPadLeft(html))
NoShape == [ok |-> FALSE, main |-> <<>>, frac |-> <<>>]
TwoFragment(html) ==
    LET t == Core(html)
        e == DigitRunEnd(t, 1)
        e2 == DigitRunEnd(t, e + 3)
    IN  IF e >= 1 /\ At(t, e + 1) = "." /\ At(t, e + 2) \in {"<span>", "<span coin>"}
           /\ e2 >= e + 3 /\ e2 + 1 = Len(t) /\ At(t, e2 + 1) = "</span>"
        THEN [ok |-> TRUE, main |-> SubSeq(t, 1, e), frac |-> SubSeq(t, e + 3, e2)]
        ELSE NoShape
DecimalWithCurrency(html) ==
    LET t == Core(html)
        e == DigitRunEnd(t, 1)
        e2 == DigitRunEnd(t, e + 2)
    IN  IF e >= 1 /\ At(t, e + 1) \in {".", ","} /\ e2 >= e + 2 /\ e2 < Len(t)
           /\ At(t, Len(t)) \in {"grn", "UAH"}
           /\ \A k \in (e2 + 1)..(Len(t) - 1) : t[k] = " "
        THEN [ok |-> TRUE, main |-> SubSeq(t, 1, e), frac |-> SubSeq(t, e + 2, e2)]
        ELSE NoShape
ShapeValue(sh) == IntOf(sh.main) * PriceScale + FracUnits(sh.frac)
NoPatternMatches(html) == \A k \in 1..6 : ~PriceSearch(k, html).ok

\* C9 as stated: a card whose price is rendered I.<span>F</span>, or as a
\* decimal followed by the currency, gets the price I.F, and a card on which
\* no pattern matches is dropped.
C9_PriceResolvedAsStated ==
    (c_done /\ c_card.name # None)
    => /\ \A sh \in {TwoFragment(c_card.html), DecimalWithCurrency(c_card.html)} :
             sh.ok => (c_product # NoProduct /\ c_product.price = Num(ShapeValue(sh)))
       /\ NoPatternMatches(c_card.html) => c_product = NoProduct

\* C9: a card whose price is rendered I.<span>F</span>, or as a decimal with
\* ',' or '.' followed by the currency, gets the price I.F when I.F is not
\* zero and is dropped when it is zero; clean_price makes the same number of
\* the text; a card on which no pattern matches is dropped.
C9_PriceResolved ==
    (c_done /\ c_card.name # None)
    => /\ \A sh \in {TwoFragment(c_card.html), DecimalWithCurrency(c_card.html)} :
             sh.ok => /\ clean_price(c_card.html) = Num(ShapeValue(sh))
                      /\ IF ShapeValue(sh) # 0
                         THEN c_product # NoProduct /\ c_product.price = Num(ShapeValue(sh))
                         ELSE c_product = NoProduct
       /\ NoPatternMatches(c_card.html) => c_product = NoProduct

C9_Witness ==
    /\ c_done
    /\ c_card.html = <<"1", "4", "9", ",", "5", "0", " ", "grn">>
    /\ DecimalWithCurrency(c_card.html).ok
    /\ c_product # NoProduct
    /\ c_product.price = Num(149 * PriceScale + PriceScale \div 2)

\* C11: a discovery run for a store is a full replace.  When a run ends
\* without an exception, no row of the store that was in the table before the
\* run is left, the rows of the store are exactly the categories the handler
\* found on the page of this run and did not exclude, and the rows of every
\* other store are as they were.
StoreRows(rows, store) == {r \in rows : r.store = store}
OtherRows(rows, store) == {r \in rows : r.store # store}
FoundOnPage(links, handler) ==
    IF handler = "base"
    THEN {[category |-> RStrip(LStrip(l.text)), url |-> urljoin(l.href)] : l \in Range(links)}
    ELSE {[category |-> clean_text(l.text), url |-> urljoin(l.href)] :
              l \in {x \in Range(links) : /\ TruthyText(x.href) /\ x.href[1] = "/"
                                           /\ TruthyText(x.text)}}
NotExcluded(found) == {c \in found : ~is_category_excluded(c.url)}
PassesValidation(item) == ValidationPipeline_process_item(item).ok
RejectedInRun(j) ==
    \/ ~PassesValidation(yielded[j])
    \/ \E i \in 1..(j - 1) : /\ PassesValidation(yielded[i])
                              /\ SameStoreUrl(yielded[i], yielded[j])
SameRowValues(a, b) == a.name = b.name /\ a.price = b.price /\ a.store = b.store /\ a.url = b.url
C12_RejectedIsNeverWritten ==
    (run = 1 /\ api_saved = <<>>)
    => \A j \in DOMAIN yielded :
          (/\ RejectedInRun(j)
           /\ \A k \in DOMAIN yielded : SameRowValues(yielded[k], yielded[j]) => RejectedInRun(k))
          => ~\E r \in products : SameRowValues(r, yielded[j])

\* C13: a write that fails inside a batch is caught and counted and does not
\* stop the other writes: after close_spider every item that reached the
\* batch and whose write did not fail has its row, and
\* items_processed = items_saved + items_failed.
C13_FailedWriteIsCounted ==
    (run = 1 /\ phase = "closed" /\ api_saved = <<>>)
    => /\ \A j \in DOMAIN yielded :
             (~RejectedInRun(j) /\ yielded[j].scraped_at # "str")
             => \E r \in products : r.name = clean_text(yielded[j].name)
                                     /\ r.store = yielded[j].store /\ r.url = yielded[j].url
       /\ items_processed = items_saved + items_failed

\* The crawl state of CrawlInit
FreshCrawlState ==
    [rows |-> {}, next |-> 1, seen |-> {}, dup |-> 0, batch |-> <<>>,
     processed |-> 0, saved |-> 0, failed |-> 0, scraped |-> 0]

\* The crawl state after the answers of the pages of order, one after another
RECURSIVE AfterPages(_, _)
AfterPages(st, order) ==
    IF order = <<>> THEN st
    ELSE AfterPages(IF g_site[Head(order)].status = "200"
                    THEN Varus_card_loop(st, <<>>, g_site[Head(order)].cards).st
                    ELSE st,
                    Tail(order))

\* The numbers of pages in ascending order
RECURSIVE Ascending(_)
Ascending(pages) ==
    IF pages = {} THEN <<>>
    ELSE LET least == CHOOSE n \in pages : \A m \in pages : n <= m
         IN  <<least>> \o Ascending(pages \ {least})

\* How many rows carry the name, price, store and url of row x
CountLike(rows, x) == Cardinality({r \in rows : SameRowValues(r, x)})
SameContent(rows1, rows2) ==
    \A x \in rows1 \cup rows2 : CountLike(rows1, x) = CountLike(rows2, x)

\* C14: within one category no request for a page 2..N is scheduled before
\* page 1 has been answered and handled, and when the spider has closed
\* the rows persisted are those of handling the same pages in ascending
\* order, whatever the order in which the answers of pages 2..N arrived.
C14_PageOneFirstThenAnyOrder ==
    /\ (\E n \in g_sched \cup g_ready \cup Range(g_done) : n >= 2)
           => (g_done # <<>> /\ g_done[1] = 1)
    /\ phase = "closed"
           => SameContent(products,
                          DatabasePipeline_process_batch(
                              AfterPages(FreshCrawlState, Ascending(Range(g_done)))).rows)

\* The pages past page 1 whose 404 answer the spider has handled
NotFoundHandled == {n \in Range(g_done) : n >= 2 /\ g_site[n].status = "404"}

\* C17: a 404 answer is never retried (its page is not scheduled or fetched
\* again), and once the 404 answer of a page past page 1 has been handled
\* no further page of the category is requested from the store.
C17_NotFoundEndsPagination ==
    [][/\ \A n \in Range(g_done) :
             g_site[n].status = "404" => n \notin g_sched' \cup g_ready'
       /\ NotFoundHandled # {} => g_ready' \subseteq g_ready]_vars

\* C18: every browser page opened for a rendered fetch is closed again,
\* after the parse of its response, after a request error, and after an
\* exception of the product extraction: no page whose answer the spider
\* has handled is still open, and none is open when the spider has closed.
C18_NoPageLeftOpen ==
    /\ \A n \in Range(g_done) : n \notin g_open
    /\ phase = "closed" => g_open = {}

\* C15: the category records of a store are all written before the product
\* crawl of that store begins: once product pages of a store have been
\* fetched and their products persisted, no step writes the record of a
\* further category of that store.
CategoriesOf(rows, store) == {r.category : r \in StoreRows(rows, store)}
C15_DiscoveryBeforeCrawl ==
    [][\A store \in {Varus, ATB} :
          StoreRows(products, store) # {}
             => CategoriesOf(categories', store) \subseteq CategoriesOf(categories, store)]_vars

\* The waits of n retries that double: 1, 2, 4, ...
Doubling(n) == [k \in 1..n |-> 2 ^ (k - 1)]

\* C16: in both fetch strategies the wait before the k-th retry doubles with
\* each retry: the download of the k-th retry request that RetryMiddleware
\* issued is preceded by a sleep of 2^(k-1) seconds in process_request, and
\* make_curl_request has slept 1, 2, 4, ... seconds between its attempts.
C16_BackoffDoubles ==
    [][/\ (f_kind # "curl" /\ f_attempts' = f_attempts + 1
              /\ f_req.retry_times >= 1 /\ f_req.playwright_retry_times = 0)
           => f_sleeps' = Append(f_sleeps, 2 ^ (f_req.retry_times - 1))
       /\ (f_kind = "curl" /\ f_state = "new" /\ f_state' = "done")
           => f_sleeps' = Doubling(f_attempts' - 1)]_vars
\* The half of it that is about make_curl_request alone
CurlBackoffDoubles ==
    [][(f_kind = "curl" /\ f_state = "new" /\ f_state' = "done")
           => f_sleeps' = Doubling(f_attempts' - 1)]_vars

\* The attempts the retry policy allows for one URL
AttemptBudget == IF f_kind = "curl" THEN max_retries ELSE RETRY_TIMES + 1
TimedOut(o) == o \in {"timeout", "timeout_other"}

\* C20: the expiry of a fetch timeout is a retryable failure: when the
\* first k answers for a URL are timeouts and the budget allows another
\* attempt, the URL has been attempted at least k + 1 times by the time the
\* task is over; the task does get over, it is handed on to the spider.
C20_TimeoutIsRetried ==
    TaskOver => \A k \in 1..(AttemptBudget - 1) :
                   (k <= Len(f_script) /\ \A i \in 1..k : TimedOut(f_script[i]))
                      => f_attempts >= k + 1
\* The same for the timeouts PlaywrightTimeoutRetryMiddleware recognises
RecognisedTimeoutIsRetried ==
    TaskOver => \A k \in 1..(AttemptBudget - 1) :
                   (k <= Len(f_script) /\ \A i \in 1..k : f_script[i] = "timeout")
                      => f_attempts >= k + 1

NoRepeats(seq) == \A i, j \in DOMAIN seq : seq[i] = seq[j] => i = j
\* The pages done whose worker returned a list
Returned == Range(w_completed) \ w_raises
SameProduct(a, b) == a.name = b.name /\ a.price = b.price /\ a.store = b.store /\ a.url = b.url

\* C19: in the worker pool of scrape_category at most 5 page fetches are in
\* flight at once; each page 1..N is taken by exactly one worker; products
\* are saved only after all N pages have completed; and every product of a
\* page whose worker returned is in the merged result, and after the save
\* in the table, whichever pages raised or returned nothing and whatever
\* the order of completion.
C19_PoolBoundedMergedAfterAll ==
    /\ Cardinality(w_running) <= 5
    /\ NoRepeats(w_started)
    /\ NoRepeats(w_completed)
    /\ w_running = Range(w_started) \ Range(w_completed)
    /\ Range(w_started) \subseteq 1..w_max_pages
    /\ (products # {} \/ w_total > 0) => Range(w_completed) = 1..w_max_pages
    /\ (w_pc = "done" /\ establish_session(a_session)) => Range(w_completed) = 1..w_max_pages
    /\ \A n \in Returned :
          \A x \in Range(ScrapeSinglePage(SitePage(w_site, n))) :
             /\ x \in Range(w_products)
             /\ w_pc = "done" => \E r \in products : SameProduct(r, x)
    /\ \A x \in Range(w_products) :
          \E n \in Returned : x \in Range(ScrapeSinglePage(SitePage(w_site, n)))
    /\ w_pc = "done" /\ establish_session(a_session) => w_total = Len(w_products)

\* scrape_category has returned for a category of more pages than workers,
\* of which one page raised, another was not delivered, and the first
\* future done was not that of page 1
C19_Witness ==
    /\ w_pc = "done"
    /\ w_max_pages > 5
    /\ Range(w_completed) = 1..w_max_pages
    /\ w_completed[1] # 1
    /\ \E n \in w_raises, m \in 1..w_max_pages :
          /\ n # m
          /\ SitePage(w_site, m) = None
          /\ ScrapeSinglePage(SitePage(w_site, n)) # <<>>
    /\ products # {}
    /\ w_total = w_max_pages - 2

\* The item ValidationPipeline passes on for the j-th item yielded
Validated(j) == ValidationPipeline_process_item(yielded[j]).item

\* C21: ValidationPipeline.process_item accepts an item only if it has a
\* non-empty name, a positive price, a non-empty store and a non-empty URL;
\* an item that fails one of the four is dropped.
C21_AcceptedHasFourFields ==
    \A j \in DOMAIN yielded :
       PassesValidation(yielded[j])
          => /\ TruthyText(Validated(j).name)
             /\ IsNum(Validated(j).price) /\ Val(Validated(j).price) > 0
             /\ TruthyText(Validated(j).store)
             /\ TruthyText(Validated(j).url)
\* The three fields validate_product_data does look at
AcceptedHasPriceAndStore ==
    \A j \in DOMAIN yielded :
       PassesValidation(yielded[j])
          => /\ IsNum(Validated(j).price) /\ Val(Validated(j).price) > 0
             /\ TruthyText(Validated(j).store)

\* C22: a crawl run of the store (one not started in discovery mode) ends
\* without a request for a category page only if the store had no
\* category recorded before and the discovery of the run found none; when
\* categories were recorded, or discovery found one, category pages are
\* requested.
C22_RunAbortsOnlyWithoutCategories ==
    [][((d_runs' = d_runs + 1 /\ d_last' = "base") \/ d_loads' = d_loads + 1)
          => (d_requests' = {}
                 => /\ StoreRows(categories, Varus) = {}
                    /\ StoreRows(categories', Varus) = {})]_vars
\* A run that finds categories recorded requests their pages
LoadRequestsPages ==
    [][d_loads' = d_loads + 1 => d_requests' # {}]_vars

\* C23: DatabasePipeline keeps a bounded batch: after every process_item
\* fewer than batch_size (100) items are buffered; the buffer is flushed
\* exactly when it reaches batch_size, and at close_spider, after which it
\* is empty; and every item process_item accepted is handed to the
\* database write exactly once: the k-th item is either the row the k-th
\* write made or still in the buffer, at its place.
C23_BoundedBatchWrittenOnce ==
    /\ Len(batch_items) < 100
    /\ Cardinality(products) + Len(batch_items) = items_processed
    /\ \A r \in products : r.id \in 1..items_processed /\ r.name = BatchItem(r.id).name
    /\ \A r1, r2 \in products : r1.id = r2.id => r1 = r2
    /\ batch_items = [k \in 1..Len(batch_items) |-> BatchItem(Cardinality(products) + k)]
    /\ phase = "crawl" => Cardinality(products) = 100 * (items_processed \div 100)
    /\ phase = "closed" => /\ batch_items = <<>>
                           /\ items_saved = items_processed
    /\ items_saved = Cardinality(products)

\* the spider has closed after two flushes at batch_size and with items
\* left in the buffer for the flush of close_spider
C23_Witness ==
    /\ phase = "closed"
    /\ items_processed > 2 * batch_size
    /\ items_processed % batch_size # 0
    /\ Cardinality(products) = items_processed

\* ------------------------------------------------------------------- C24
\* The matches of the first selector, in the configured order, that selects
\* at least one element of the page
RECURSIVE FirstMatching(_, _)
FirstMatching(doc, selectors) ==
    IF selectors = <<>> THEN <<>>
    ELSE IF css(doc, Head(selectors)) # <<>> THEN css(doc, Head(selectors))
    ELSE FirstMatching(doc, Tail(selectors))

ConfiguredSelectors(spider) ==
    IF spider = "metro" THEN selectors_to_try ELSE product_card_selector

\* C24: the list of product cards of a page is the matches of the first
\* configured selector that selects at least one element, later selectors
\* are not consulted, and no element is in the list twice.
C24_CardsOfFirstMatchingSelector ==
    k_spider # "none" =>
        /\ k_cards = FirstMatching(k_doc, ConfiguredSelectors(k_spider))
        /\ NoRepeats(k_cards)

\* Metro's loop breaks at the first selector with a match.
MetroTakesFirstMatching ==
    k_spider = "metro" =>
        /\ k_cards = FirstMatching(k_doc, selectors_to_try)
        /\ NoRepeats(k_cards)

\* Varus and the base spider: the list is the concatenation over all selectors.
VarusConcatenatesAllSelectors ==
    k_spider \in {"varus", "base"} =>
        k_cards = css(k_doc, product_card_selector[1]) \o css(k_doc, product_card_selector[2])

\* ------------------------------------------------------------------- C25
\* C25: no extractor yields a partial record: every item a spider yields to
\* the pipelines has a non-empty name and a positive price.
C25_NoPartialRecordYielded ==
    \A i \in DOMAIN yielded :
        /\ TruthyText(yielded[i].name)
        /\ IsNum(yielded[i].price)
        /\ Val(yielded[i].price) > 0

\* What every extractor does guarantee: an item has a name value (possibly
\* empty) and, outside Silpo, a positive price.
YieldedOutsideSilpoHasPrice ==
    \A i \in DOMAIN yielded :
        yielded[i].store # Silpo => IsNum(yielded[i].price) /\ Val(yielded[i].price) > 0

\* ------------------------------------------------------------------- C26
IsCategoryItem(item) == "type" \in DOMAIN item /\ item.type = "category"

CategorySaved(item) ==
    \E r \in categories : /\ r.store = item.store
                           /\ r.category = item.category
                           /\ r.category_url = item.category_url

\* C26: a category item with a store and a category that a spider yielded
\* has been saved to the categories table by CategoryPipeline, and it is in
\* neither the batch of DatabasePipeline nor the seen set of
\* DeduplicationPipeline.
C26_CategoryItemSavedThenDropped ==
    \A i \in DOMAIN yielded :
        IsCategoryItem(yielded[i]) /\ TruthyText(yielded[i].store)
                                   /\ TruthyText(yielded[i].category) =>
            /\ CategorySaved(yielded[i])
            /\ \A k \in DOMAIN batch_items : ~IsCategoryItem(batch_items[k])

\* CategoryPipeline.process_item on its own saves the item and drops it.
CategoryPipelineSavesAndDrops ==
    \A item \in CategoryItems :
        LET c == CategoryPipeline_process_item([rows |-> categories, next |-> cat_next_id], item)
        IN  /\ c.dropped
            /\ \E r \in c.db.rows : /\ r.store = item.store
                                     /\ r.category = item.category
                                     /\ r.category_url = item.category_url

\* No category item gets past ValidationPipeline: the categories table stays
\* empty in a crawl whatever category items are yielded.
CategoryItemsStopAtValidation == categories = {}

\* ------------------------------------------------------------------- C27
\* The items of the run that got past ValidationPipeline, as it hands them on
RECURSIVE ValidatedOf(_)
ValidatedOf(items) ==
    IF items = <<>> THEN <<>>
    ELSE LET v == ValidationPipeline_process_item(Head(items))
         IN  (IF v.ok THEN <<v.item>> ELSE <<>>) \o ValidatedOf(Tail(items))

Identity(item) == generate_product_id(item.store, item.url)

\* The items whose identity no earlier item of the sequence has
FirstOccurrences(items) ==
    SelectSeq([i \in DOMAIN items |-> [at |-> i, item |-> items[i]]],
              LAMBDA e : \A j \in 1..(e.at - 1) : Identity(items[j]) # Identity(e.item))

\* C27: in one run duplicate_count plus the size of seen_products is the
\* number of items DeduplicationPipeline processed, seen_products never
\* shrinks, and the items passed on are exactly those whose identity was not
\* seen before.
C27_DedupCountsAndPassesNew ==
    /\ [](duplicate_count + Cardinality(seen_products) = Len(ValidatedOf(yielded)))
    /\ [](phase = "crawl" =>
            LET passed == FirstOccurrences(ValidatedOf(yielded))
            IN  /\ batch_items = [k \in DOMAIN passed |-> passed[k].item]
                /\ items_processed = Len(passed)
                /\ seen_products = {Identity(passed[k].item) : k \in DOMAIN passed})
    /\ [][run' = run => seen_products \subseteq seen_products']_vars

\* A run in which the stage has dropped a duplicate and passed two items on
C27_Witness ==
    /\ duplicate_count >= 1
    /\ Cardinality(seen_products) >= 2
    /\ Len(batch_items) = 2

\* ------------------------------------------------------------------- C28
\* C28: every fetch ends after a bounded number of attempts: the retry
\* counter of RetryMiddleware and the one of PlaywrightTimeoutRetryMiddleware
\* never exceed RETRY_TIMES, so one request is downloaded at most
\* 1 + 2 * RETRY_TIMES times, and make_curl_request runs curl at most
\* max_retries times; the server script is never used up.
C28_BoundedAttempts ==
    /\ f_req.retry_times <= RETRY_TIMES
    /\ f_req.playwright_retry_times <= RETRY_TIMES
    /\ f_kind # "curl" => /\ f_attempts <= 1 + f_req.retry_times + f_req.playwright_retry_times
                          /\ f_attempts <= 1 + 2 * RETRY_TIMES
    /\ f_kind = "curl" => f_attempts <= max_retries
    /\ f_kind = "curl" /\ f_state = "done" /\ f_processed = 0 /\ f_error_extracted = 0 =>
           f_attempts = max_retries
    /\ f_attempts < Len(f_script)

\* Both budgets used up: seven downloads of one request, then the end
C28_Witness ==
    /\ f_kind = "varus_start"
    /\ f_state = "done"
    /\ f_req.retry_times = RETRY_TIMES
    /\ f_req.playwright_retry_times = RETRY_TIMES
    /\ f_attempts = 1 + 2 * RETRY_TIMES

\* make_curl_request gives up after max_retries failed runs
CurlGivesUp ==
    f_kind = "curl" /\ f_state = "done" /\ f_attempts = max_retries /\ f_processed = 0

\* ------------------------------------------------------------------- C29
\* C29: Metro's pagination of a category ends: a category with n distinct
\* pages produces at most n + 1 requests.
C29_MetroPaginationTerminates == m_requests <= Len(m_site.pages) + 1

\* The request for page k + 1 is issued only after page k showed a card.
NextPageOnlyAfterCards ==
    [][m_page' # m_page => /\ m_page' = m_page + 1
                           /\ MetroResponse(m_site, m_page).products > 0]_vars

\* With an empty page, a 404 or a redirect past the last page the requests
\* stay within n + 1.
StopsOnEmpty404Redirect ==
    m_site.past \in {"empty", "404", "redirect"} => m_requests <= Len(m_site.pages) + 1

\* ------------------------------------------------------------------- C30
\* The URL contains an exclusion substring of the store, compared without
\* regard to case
HasExclusionSubstring(url) ==
    \E pattern \in EXCLUDED_URL_PATTERNS : Contains(LowerSeq(url), LowerSeq(pattern))

\* C30: after the product crawl has loaded the categories from the database,
\* no request is scheduled for a stored category whose URL contains an
\* exclusion substring, and a request for page 1 is scheduled for every other
\* stored category of the store with a non-empty URL, and for nothing else.
C30_LoadSkipsExcludedOnly ==
    d_last = "load" =>
        /\ \A q \in d_requests : ~HasExclusionSubstring(q.url)
        /\ \A r \in categories :
               r.store = Varus /\ TruthyText(r.category_url)
                               /\ ~HasExclusionSubstring(r.category_url) =>
                   [url |-> r.category_url, category_name |-> r.category, page |-> 1]
                       \in d_requests
        /\ \A q \in d_requests :
               /\ q.page = 1
               /\ \E r \in categories : /\ r.store = Varus
                                         /\ r.category_url = q.url
                                         /\ r.category = q.category_name

\* A load from a table with an excluded row, a row without URL and a row
\* that is requested
C30_Witness ==
    /\ d_last = "load"
    /\ d_requests # {}
    /\ \E r \in categories : r.store = Varus /\ TruthyText(r.category_url)
                                             /\ HasExclusionSubstring(r.category_url)
    /\ \E r \in categories : r.store = Varus /\ ~TruthyText(r.category_url)

====
